---------------------------- MODULE Spec2Model ----------------------------
(***************************************************************************)
(* BlendAI: a Blender add-on that asks a chat-completion endpoint for a    *)
(* script, runs it with bounded retries, keeps an interaction log, and     *)
(* imports .blend assets fetched from the network.                        *)
(*                                                                         *)
(* Text is modelled character by character: a text is a sequence of        *)
(* one-character strings.  The backtick character cannot be written in a   *)
(* TLA+ string; it is the model character "BT".                            *)
(*                                                                         *)
(* The repository holds the same add-on in several iterations.  The three  *)
(* that differ in behaviour are told apart by the variable variant:        *)
(*   "power"  : src/openrouter_power.py (and BlendAI_openrouter.py:1-254)  *)
(*   "plugin" : src/BlendAI_openrouter.py:517-666                          *)
(*   "gemini" : src/BlendAI_openrouter.py:668-896                          *)
(***************************************************************************)
EXTENDS Integers, Sequences, FiniteSets, TLC

VARIABLES
    variant,        \* which iteration of the add-on is installed
    ops,            \* operations started so far
    \* execute_script_with_retries
    pc,             \* position in the function
    code,           \* argument code
    max_retries,    \* argument max_retries
    attempt,        \* loop variable of the for statement
    obj_location,   \* local obj_location ("gemini" only)
    result,         \* what the call returned or raised
    compile_calls,  \* calls of compile() in this call
    exec_calls,     \* calls of exec() in this call
    sleeps,         \* calls of time.sleep(0.5) in this call
    faults,         \* exceptions raised inside the try block, in order
    host_at_call,   \* host when the call started
    \* the host session
    host,           \* mutations applied to the live session
    \* the log files
    log,            \* content of LOG_FILE
    log_exists,     \* os.path.exists(LOG_FILE)
    log_writes,     \* calls of f.write on LOG_FILE
    deprecated_log, \* content of DEPRECATED_LOG_FILE
    last_read,      \* what the last read_log_history() returned
    read_at,        \* length of LOG_FILE when it was last read
    \* get_ai_generated_code / get_generated_code
    gen_in,         \* arguments and environment of the last call
    gen_result,     \* what the last call returned or raised
    posts,          \* requests.post calls issued
    payloads,       \* the system prompts composed, with their inputs
    \* the cleaning of one completion text
    content,        \* the completion text
    cleaned,        \* the code made from it
    \* import_online_asset
    fetch_in,       \* arguments and environment of the last call
    fetch_result,   \* what the last call returned
    gets,           \* requests.get calls issued
    scratch,        \* scratch files written
    import_status,  \* scene.import_status
    \* download_github_repo, find_blend_files, append_from_library and their
    \* operators
    tree,           \* the files under the directory find_blend_files walks
    blend_found,    \* what the last find_blend_files() returned
    blend_found_before, \* what the call before it returned
    repo_in,        \* arguments and environment of the last fetch operator
    downloads,      \* urllib.request.urlretrieve calls issued
    temp_dirs,      \* the directories tempfile.mkdtemp made, still on disk
    blend_files,    \* bpy.types.Scene.ai_blend_files
    blend_enum,     \* scene.ai_blend_enum
    selected,       \* scene.ai_selected_blend_file
    github_status,  \* scene.ai_github_status
    op_ret,         \* what the last operator's execute() returned
    data,           \* bpy.data.objects, .materials, .textures
    import_in,      \* arguments and environment of the last import
    summary,        \* what the last append_from_library() returned
    loads,          \* the categories it asked bpy.data.libraries.load for
    other_scene,    \* the properties of the file's other scene
    \* GenerateAndRunCodeOperator.execute
    invocation      \* position and call counts of the current invocation

runVars == <<pc, code, max_retries, attempt, obj_location, result,
             compile_calls, exec_calls, sleeps, faults, host_at_call>>
logVars == <<log, log_exists, log_writes>>
readVars == <<last_read, read_at>>
genVars == <<gen_in, gen_result, posts, payloads, deprecated_log>>
cleanVars == <<content, cleaned>>
fetchVars == <<fetch_in, fetch_result, gets, scratch, import_status>>
findVars == <<tree, blend_found, blend_found_before>>
repoVars == <<repo_in, downloads, temp_dirs, blend_files, blend_enum, selected,
              github_status, op_ret, data, import_in, summary, loads,
              other_scene>>
opVars == <<invocation>>
vars == <<variant, ops, runVars, host, logVars, readVars, genVars, cleanVars,
          fetchVars, findVars, repoVars, opVars>>

(***************************************************************************)
(* Bounds of the model.                                                    *)
(***************************************************************************)
MaxRetries == 3
MaxGens == 2
MaxPieces == 6
MaxAppends == 3
MaxOps == 2
MaxUrlPieces == 3
MaxFiles == 3
MaxRepoOps == 3

MaxSceneOps == 5

(***************************************************************************)
(* Characters and the str methods the code uses.                           *)
(***************************************************************************)
Backtick == "BT"

\* the em dash of the system prompts, as one character
EmDash == "EM"

\* the texts of the Completion Client and the History Store of
\* src/openrouter_power.py, and the messages of the faults they meet
PowerGenText ==
    [
      \* lines 30-39
      DefaultModel |->
          <<"g", "o", "o", "g", "l", "e", "/", "g", "e", "m", "i", "n", "i", "-",
            "p", "r", "o">>,
      \* lines 60-65
      PermissionErrorMsg |->
          <<"[", "E", "r", "r", "n", "o", " ", "1", "3", "]", " ", "P", "e", "r",
            "m", "i", "s", "s", "i", "o", "n", " ", "d", "e", "n", "i", "e", "d">>,
      \* line 66
      LogModelLabel |->
          <<"M", "o", "d", "e", "l", ":", " ">>,
      \* line 66
      LogPromptLabel |->
          <<"P", "r", "o", "m", "p", "t", ":", " ">>,
      \* line 66
      LogResponseLabel |->
          <<"\n", "R", "e", "s", "p", "o", "n", "s", "e", ":", "\n">>,
      \* lines 73-77
      \* the fixed text of the system prompts, src/openrouter_power.py:73-84 and
      \* src/BlendAI_openrouter.py:582-592, :757-768
      SystemPromptHead_power |->
          <<"Y", "o", "u", " ", "a", "r", "e", " ", "a", "n", " ", "A", "I", " ",
            "s", "p", "e", "c", "i", "a", "l", "i", "z", "e", "d", " ", "i", "n",
            " ", "g", "e", "n", "e", "r", "a", "t", "i", "n", "g", " ", "B", "l",
            "e", "n", "d", "e", "r", " ", "4", ".", "3", " ", "P", "y", "t", "h",
            "o", "n", " ", "s", "c", "r", "i", "p", "t", "s", ".", "\n", "-", " ",
            "A", "l", "w", "a", "y", "s", " ", "r", "e", "t", "u", "r", "n", " ",
            "*", "*", "v", "a", "l", "i", "d", " ", "a", "n", "d", " ", "e", "x",
            "e", "c", "u", "t", "a", "b", "l", "e", "*", "*", " ", "P", "y", "t",
            "h", "o", "n", " ", "c", "o", "d", "e", " ", "c", "o", "m", "p", "a",
            "t", "i", "b", "l", "e", " ", "w", "i", "t", "h", " ", "B", "l", "e",
            "n", "d", "e", "r", " ", "4", ".", "3", ".", "\n", "-", " ", "D", "o",
            " ", "*", "*", "N", "O", "T", "*", "*", " ", "i", "n", "c", "l", "u",
            "d", "e", " ", "e", "x", "p", "l", "a", "n", "a", "t", "i", "o", "n",
            "s", " ", "o", "r", " ", "f", "o", "r", "m", "a", "t", "t", "i", "n",
            "g", EmDash, "j", "u", "s", "t", " ", "t", "h", "e", " ", "r", "a", "w",
            " ", "s", "c", "r", "i", "p", "t", ".", "\n", "-", " ", "R", "e", "t",
            "u", "r", "n", " ", "O", "N", "L", "Y", " ", "t", "h", "e", " ", "P",
            "y", "t", "h", "o", "n", " ", "c", "o", "d", "e", " ", "w", "i", "t",
            "h", "o", "u", "t", " ", "m", "a", "r", "k", "d", "o", "w", "n", " ",
            "f", "o", "r", "m", "a", "t", "t", "i", "n", "g", " ", "o", "r", " ",
            "c", "o", "d", "e", " ", "b", "l", "o", "c", "k", " ", "d", "e", "l",
            "i", "m", "i", "t", "e", "r", "s", ".", "\n", "-", " ", "*", "*", "A",
            "v", "o", "i", "d", " ", "u", "s", "i", "n", "g", " ", "t", "h", "e",
            " ", "f", "o", "l", "l", "o", "w", "i", "n", "g", " ", "d", "e", "p",
            "r", "e", "c", "a", "t", "e", "d", " ", "f", "u", "n", "c", "t", "i",
            "o", "n", "s", ":", "*", "*", " ", "\n">>,
      \* lines 78-80
      PreviousInteractionsHeading |->
          <<"\n", "\n", "#", "#", " ", "P", "r", "e", "v", "i", "o", "u", "s", " ",
            "I", "n", "t", "e", "r", "a", "c", "t", "i", "o", "n", "s", ":", "\n">>,
      \* lines 81-83
      UserRequestHeading |->
          <<"\n", "\n", "#", "#", " ", "U", "s", "e", "r", " ", "R", "e", "q", "u",
            "e", "s", "t", ":", "\n">>,
      \* line 84
      BlenderSuffix |->
          <<" ", "i", "n", " ", "B", "l", "e", "n", "d", "e", "r", " ", "4", ".",
            "3">>,
      \* line 103
      ConnectionErrorMsg |->
          <<"C", "o", "n", "n", "e", "c", "t", "i", "o", "n", " ", "r", "e", "f",
            "u", "s", "e", "d">>,
      \* line 104
      JsonDecodeErrorMsg |->
          <<"E", "x", "p", "e", "c", "t", "i", "n", "g", " ", "v", "a", "l", "u",
            "e", ":", " ", "l", "i", "n", "e", " ", "1", " ", "c", "o", "l", "u",
            "m", "n", " ", "1", " ", "(", "c", "h", "a", "r", " ", "0", ")">>,
      \* line 107
      IndexErrorMsg |->
          <<"l", "i", "s", "t", " ", "i", "n", "d", "e", "x", " ", "o", "u", "t",
            " ", "o", "f", " ", "r", "a", "n", "g", "e">>,
      \* line 107
      NoneStripErrorMsg |->
          <<"'", "N", "o", "n", "e", "T", "y", "p", "e", "'", " ", "o", "b", "j",
            "e", "c", "t", " ", "h", "a", "s", " ", "n", "o", " ", "a", "t", "t",
            "r", "i", "b", "u", "t", "e", " ", "'", "s", "t", "r", "i", "p", "'">>,
      \* line 110
      TripleBacktick |->
          <<Backtick, Backtick, Backtick>>,
      \* line 113
      TripleDoubleQuote |->
          <<"\"", "\"", "\"">>,
      \* line 115
      TripleSingleQuote |->
          <<"'", "'", "'">>,
      \* line 121
      UnknownErrorMsg |->
          <<"U", "n", "k", "n", "o", "w", "n", " ", "e", "r", "r", "o", "r">>,
      \* line 121
      NoneGetErrorMsg |->
          <<"'", "N", "o", "n", "e", "T", "y", "p", "e", "'", " ", "o", "b", "j",
            "e", "c", "t", " ", "h", "a", "s", " ", "n", "o", " ", "a", "t", "t",
            "r", "i", "b", "u", "t", "e", " ", "'", "g", "e", "t", "'">>,
      \* line 121
      StrGetErrorMsg |->
          <<"'", "s", "t", "r", "'", " ", "o", "b", "j", "e", "c", "t", " ", "h",
            "a", "s", " ", "n", "o", " ", "a", "t", "t", "r", "i", "b", "u", "t",
            "e", " ", "'", "g", "e", "t", "'">>,
      \* line 121
      ListGetErrorMsg |->
          <<"'", "l", "i", "s", "t", "'", " ", "o", "b", "j", "e", "c", "t", " ",
            "h", "a", "s", " ", "n", "o", " ", "a", "t", "t", "r", "i", "b", "u",
            "t", "e", " ", "'", "g", "e", "t", "'">>,
      \* line 121
      RateLimitedMsg |->
          <<"R", "a", "t", "e", " ", "l", "i", "m", "i", "t", "e", "d">>,
      \* line 122
      ErrorPrefix |->
          <<"#", " ", "E", "r", "r", "o", "r", ":", " ">>,
      \* line 124
      ErrorGeneratingPrefix |->
          <<"#", " ", "E", "r", "r", "o", "r", " ", "g", "e", "n", "e", "r", "a",
            "t", "i", "n", "g", " ", "c", "o", "d", "e", ":", " ">>
    ]

\* the texts of execute_script_with_retries of src/openrouter_power.py
PowerRunText ==
    [
      \* line 130
      NoValidCodeMsg |->
          <<"N", "o", " ", "v", "a", "l", "i", "d", " ", "c", "o", "d", "e", " ", "t", "o",
            " ", "e", "x", "e", "c", "u", "t", "e", ".">>,
      \* line 134
      SuccessMsg |->
          <<"S", "c", "r", "i", "p", "t", " ", "e", "x", "e", "c", "u", "t", "e", "d", " ",
            "s", "u", "c", "c", "e", "s", "s", "f", "u", "l", "l", "y", ".">>,
      \* lines 135-136
      UnclosedParenMsg |->
          <<"'", "(", "'", " ", "w", "a", "s", " ", "n", "e", "v", "e", "r", " ", "c", "l",
            "o", "s", "e", "d", " ", "(", "<", "s", "t", "r", "i", "n", "g", ">", ",", " ",
            "l", "i", "n", "e", " ", "1", ")">>,
      \* line 136
      SyntaxErrorPrefix |->
          <<"#", " ", "S", "y", "n", "t", "a", "x", " ", "E", "r", "r", "o", "r", ":", " ">>,
      \* line 141
      ErrorExecutingTheScriptAfter |->
          <<"#", " ", "E", "r", "r", "o", "r", " ", "e", "x", "e", "c", "u", "t", "i", "n",
            "g", " ", "t", "h", "e", " ", "s", "c", "r", "i", "p", "t", " ", "a", "f", "t",
            "e", "r", " ">>,
      \* line 141
      AttemptsColon |->
          <<" ", "a", "t", "t", "e", "m", "p", "t", "s", ":", " ">>
    ]

\* the texts of GenerateAndRunCodeOperator of src/openrouter_power.py
PowerOperatorText ==
    [
      \* line 290
      ErrorMarker |->
          <<"#", " ", "E", "r", "r", "o", "r">>,
      \* line 296
      FailedToGenerateMsg |->
          <<"F", "a", "i", "l", "e", "d", " ", "t", "o", " ", "g", "e", "n", "e",
            "r", "a", "t", "e", " ", "v", "a", "l", "i", "d", " ", "c", "o", "d",
            "e">>
    ]

\* the texts of the repository functions and operators of
\* src/openrouter_power.py, and the messages of the faults they meet
PowerRepoText ==
    [
      \* lines 150-151
      SlashText |->
          <<"/">>,
      \* line 154
      ArchiveRefsHeads |->
          <<"a", "r", "c", "h", "i", "v", "e", "/", "r", "e", "f", "s", "/", "h",
            "e", "a", "d", "s", "/">>,
      \* line 154
      DotZip |->
          <<".", "z", "i", "p">>,
      \* line 160: where tempfile.mkdtemp() makes its directories
      TempDirPrefix |->
          <<"/", "t", "m", "p", "/", "t", "m", "p">>,
      \* line 166
      ExtractedName |->
          <<"e", "x", "t", "r", "a", "c", "t", "e", "d">>,
      \* lines 160-174
      \* a directory as download_github_repo returns it: mkdtemp()/extracted
      ExtractDir |->
          <<"/", "t", "m", "p", "/", "t", "m", "p", "k", "3", "/", "e", "x", "t",
            "r", "a", "c", "t", "e", "d">>,
      \* line 164
      HttpNotFoundMsg |->
          <<"H", "T", "T", "P", " ", "E", "r", "r", "o", "r", " ", "4", "0", "4",
            ":", " ", "N", "o", "t", " ", "F", "o", "u", "n", "d">>,
      \* lines 170-171
      BadZipFileMsg |->
          <<"F", "i", "l", "e", " ", "i", "s", " ", "n", "o", "t", " ", "a", " ",
            "z", "i", "p", " ", "f", "i", "l", "e">>,
      \* line 176
      FailedDownloadPrefix |->
          <<"F", "a", "i", "l", "e", "d", " ", "t", "o", " ", "d", "o", "w", "n",
            "l", "o", "a", "d", " ", "G", "i", "t", "H", "u", "b", " ", "r", "e",
            "p", "o", "s", "i", "t", "o", "r", "y", ":", " ">>,
      \* line 196
      LibraryLoadErrorMsg |->
          <<"l", "o", "a", "d", ":", " ", "f", "i", "l", "e", " ", "i", "s", " ",
            "n", "o", "t", " ", "a", " ", "b", "l", "e", "n", "d", " ", "f", "i",
            "l", "e">>,
      \* line 223
      AppendingErrorPrefix |->
          <<"E", "r", "r", "o", "r", " ", "a", "p", "p", "e", "n", "d", "i", "n",
            "g", " ", "f", "r", "o", "m", " ", "l", "i", "b", "r", "a", "r", "y",
            ":", " ">>,
      \* line 318
      RepoUrl |->
          <<"h", "t", "t", "p", "s", ":", "/", "/", "g", "i", "t", "h", "u", "b",
            ".", "c", "o", "m", "/", "u", "/", "r">>,
      \* line 322
      EnterUrlMsg |->
          <<"P", "l", "e", "a", "s", "e", " ", "e", "n", "t", "e", "r", " ", "a",
            " ", "G", "i", "t", "H", "u", "b", " ", "r", "e", "p", "o", "s", "i",
            "t", "o", "r", "y", " ", "U", "R", "L">>,
      \* line 334
      NoBlendFoundMsg |->
          <<"N", "o", " ", ".", "b", "l", "e", "n", "d", " ", "f", "i", "l", "e",
            "s", " ", "f", "o", "u", "n", "d", " ", "i", "n", " ", "t", "h", "e",
            " ", "r", "e", "p", "o", "s", "i", "t", "o", "r", "y">>,
      \* line 349
      FoundPrefix |->
          <<"F", "o", "u", "n", "d", " ">>,
      \* line 349
      BlendFilesSuffix |->
          <<" ", ".", "b", "l", "e", "n", "d", " ", "f", "i", "l", "e", "s">>,
      \* line 358
      StatusErrorPrefix |->
          <<"E", "r", "r", "o", "r", ":", " ">>,
      \* line 369
      NoFilesAvailableMsg |->
          <<"N", "o", " ", ".", "b", "l", "e", "n", "d", " ", "f", "i", "l", "e",
            "s", " ", "a", "v", "a", "i", "l", "a", "b", "l", "e", ".", " ", "F",
            "e", "t", "c", "h", " ", "f", "i", "l", "e", "s", " ", "f", "i", "r",
            "s", "t", ".">>,
      \* line 375
      InvalidSelectionMsg |->
          <<"I", "n", "v", "a", "l", "i", "d", " ", "s", "e", "l", "e", "c", "t",
            "i", "o", "n">>,
      \* line 378
      CollectionIndexErrorMsg |->
          <<"b", "p", "y", "_", "p", "r", "o", "p", "_", "c", "o", "l", "l", "e",
            "c", "t", "i", "o", "n", "[", "i", "n", "d", "e", "x", "]", ":", " ",
            "i", "n", "d", "e", "x", " ", "o", "u", "t", " ", "o", "f", " ", "r",
            "a", "n", "g", "e">>,
      \* line 394
      ImportedPrefix |->
          <<"I", "m", "p", "o", "r", "t", "e", "d", ":", " ">>,
      \* line 394
      ObjectsInfix |->
          <<" ", "o", "b", "j", "e", "c", "t", "s", ",", " ">>,
      \* line 394
      MaterialsInfix |->
          <<" ", "m", "a", "t", "e", "r", "i", "a", "l", "s", ",", " ">>,
      \* line 394
      TexturesSuffix |->
          <<" ", "t", "e", "x", "t", "u", "r", "e", "s">>,
      \* line 399
      ImportErrorPrefix |->
          <<"I", "m", "p", "o", "r", "t", " ", "e", "r", "r", "o", "r", ":", " ">>,
      \* lines 462-466
      MainBranch |->
          <<"m", "a", "i", "n">>
    ]

\* the texts of import_online_asset of src/BlendAI_openrouter.py
AssetText ==
    [
      \* line 306
      DotBlend |->
          <<".", "b", "l", "e", "n", "d">>,
      \* line 307
      OnlyBlendMsg |->
          <<"#", " ", "E", "r", "r", "o", "r", ":", " ", "O", "n", "l", "y", " ",
            ".", "b", "l", "e", "n", "d", " ", "f", "i", "l", "e", "s", " ", "c",
            "a", "n", " ", "b", "e", " ", "i", "m", "p", "o", "r", "t", "e", "d",
            ".">>,
      \* line 312
      \* the scratch file of a download: temp_file.name of the NamedTemporaryFile
      \* (a name the system picks, ending in .blend), or the fixed name in
      \* bpy.app.tempdir
      TempFileName |->
          <<"/", "t", "m", "p", "/", "t", "m", "p", "q", "1", "w", "2", "e", "3",
            ".", "b", "l", "e", "n", "d">>,
      \* line 317
      AppendErrorMsg |->
          <<"E", "r", "r", "o", "r", ":", " ", "P", "y", "t", "h", "o", "n", ":",
            " ", "T", "r", "a", "c", "e", "b", "a", "c", "k">>,
      \* line 318
      AssetImportedMsg |->
          <<"A", "s", "s", "e", "t", " ", "i", "m", "p", "o", "r", "t", "e", "d",
            " ", "s", "u", "c", "c", "e", "s", "s", "f", "u", "l", "l", "y", ".">>,
      \* line 320
      DownloadFailedPrefix |->
          <<"#", " ", "E", "r", "r", "o", "r", ":", " ", "F", "a", "i", "l", "e",
            "d", " ", "t", "o", " ", "d", "o", "w", "n", "l", "o", "a", "d", " ",
            "t", "h", "e", " ", "f", "i", "l", "e", ".", " ", "H", "T", "T", "P",
            " ">>,
      \* line 322
      ErrorImportingPrefix |->
          <<"#", " ", "E", "r", "r", "o", "r", " ", "i", "m", "p", "o", "r", "t",
            "i", "n", "g", " ", "a", "s", "s", "e", "t", ":", " ">>,
      \* line 440
      DownloadedAssetPath |->
          <<"/", "t", "m", "p", "/", "b", "l", "e", "n", "d", "e", "r", "_", "a",
            "1", "/", "d", "o", "w", "n", "l", "o", "a", "d", "e", "d", "_", "a",
            "s", "s", "e", "t", ".", "b", "l", "e", "n", "d">>
    ]

\* the texts of src/BlendAI_openrouter.py:517-666
PluginText ==
    [
      \* lines 574-575
      DeprecatedHeader |->
          <<"D", "e", "p", "r", "e", "c", "a", "t", "e", "d", " ", "f", "u", "n",
            "c", "t", "i", "o", "n", "s", " ", "u", "s", "e", "d", ":", "\n">>,
      \* line 575
      CommaSpace |->
          <<",", " ">>,
      \* lines 582-585
      SystemPromptHead_plugin |->
          <<"Y", "o", "u", " ", "a", "r", "e", " ", "a", "n", " ", "A", "I", " ",
            "s", "p", "e", "c", "i", "a", "l", "i", "z", "e", "d", " ", "i", "n",
            " ", "g", "e", "n", "e", "r", "a", "t", "i", "n", "g", " ", "B", "l",
            "e", "n", "d", "e", "r", " ", "4", ".", "3", " ", "P", "y", "t", "h",
            "o", "n", " ", "s", "c", "r", "i", "p", "t", "s", ".", "\n", "-", " ",
            "A", "l", "w", "a", "y", "s", " ", "r", "e", "t", "u", "r", "n", " ",
            "*", "*", "v", "a", "l", "i", "d", " ", "a", "n", "d", " ", "e", "x",
            "e", "c", "u", "t", "a", "b", "l", "e", "*", "*", " ", "P", "y", "t",
            "h", "o", "n", " ", "c", "o", "d", "e", ".", "\n", "-", " ", "D", "o",
            " ", "*", "*", "N", "O", "T", "*", "*", " ", "i", "n", "c", "l", "u",
            "d", "e", " ", "e", "x", "p", "l", "a", "n", "a", "t", "i", "o", "n",
            "s", " ", "o", "r", " ", "f", "o", "r", "m", "a", "t", "t", "i", "n",
            "g", EmDash, "j", "u", "s", "t", " ", "t", "h", "e", " ", "r", "a", "w",
            " ", "s", "c", "r", "i", "p", "t", ".", "\n", "-", " ", "*", "*", "A",
            "v", "o", "i", "d", " ", "u", "s", "i", "n", "g", " ", "t", "h", "e",
            " ", "f", "o", "l", "l", "o", "w", "i", "n", "g", " ", "d", "e", "p",
            "r", "e", "c", "a", "t", "e", "d", " ", "f", "u", "n", "c", "t", "i",
            "o", "n", "s", ":", "*", "*", " ", "\n">>,
      \* line 612
      KeyErrorChoicesMsg |->
          <<"'", "c", "h", "o", "i", "c", "e", "s", "'">>,
      \* line 612
      ListIndicesErrorMsg |->
          <<"l", "i", "s", "t", " ", "i", "n", "d", "i", "c", "e", "s", " ", "m",
            "u", "s", "t", " ", "b", "e", " ", "i", "n", "t", "e", "g", "e", "r",
            "s", " ", "o", "r", " ", "s", "l", "i", "c", "e", "s", ",", " ", "n",
            "o", "t", " ", "s", "t", "r">>,
      \* line 619
      ApiStatusPrefix |->
          <<"#", " ", "E", "r", "r", "o", "r", ":", " ", "O", "p", "e", "n", "R",
            "o", "u", "t", "e", "r", " ", "A", "P", "I", " ", "r", "e", "t", "u",
            "r", "n", "e", "d", " ", "s", "t", "a", "t", "u", "s", " ">>,
      \* line 619
      ApiMessageInfix |->
          <<",", " ", "M", "e", "s", "s", "a", "g", "e", ":", " ">>,
      \* line 619
      RawHtmlBody |->
          <<"<", "h", "t", "m", "l", ">">>,
      \* line 619
      RawJsonBody |->
          <<"{", "}">>,
      \* line 620
      ApiErrorTitle |->
          <<"A", "P", "I", " ", "E", "r", "r", "o", "r">>,
      \* line 624
      ExceptionTitle |->
          <<"E", "x", "c", "e", "p", "t", "i", "o", "n">>,
      \* line 638
      ExecutionResultTitle |->
          <<"E", "x", "e", "c", "u", "t", "i", "o", "n", " ", "R", "e", "s", "u", "l", "t">>,
      \* line 644
      ErrorExecutingScriptAfter |->
          <<"#", " ", "E", "r", "r", "o", "r", " ", "e", "x", "e", "c", "u", "t", "i", "n",
            "g", " ", "s", "c", "r", "i", "p", "t", " ", "a", "f", "t", "e", "r", " ">>,
      \* line 645
      ExecutionErrorTitle |->
          <<"E", "x", "e", "c", "u", "t", "i", "o", "n", " ", "E", "r", "r", "o", "r">>
    ]

\* the texts of src/BlendAI_openrouter.py:668-896
GeminiText ==
    [
      \* lines 757-761
      SystemPromptHead_gemini |->
          <<"Y", "o", "u", " ", "a", "r", "e", " ", "a", "n", " ", "A", "I", " ",
            "s", "p", "e", "c", "i", "a", "l", "i", "z", "e", "d", " ", "i", "n",
            " ", "g", "e", "n", "e", "r", "a", "t", "i", "n", "g", " ", "B", "l",
            "e", "n", "d", "e", "r", " ", "4", ".", "3", " ", "P", "y", "t", "h",
            "o", "n", " ", "s", "c", "r", "i", "p", "t", "s", ".", "\n", "-", " ",
            "A", "l", "w", "a", "y", "s", " ", "r", "e", "t", "u", "r", "n", " ",
            "*", "*", "v", "a", "l", "i", "d", " ", "a", "n", "d", " ", "e", "x",
            "e", "c", "u", "t", "a", "b", "l", "e", "*", "*", " ", "P", "y", "t",
            "h", "o", "n", " ", "c", "o", "d", "e", ".", "\n", "-", " ", "E", "n",
            "s", "u", "r", "e", " ", "a", "l", "l", " ", "o", "b", "j", "e", "c",
            "t", " ", "m", "a", "t", "e", "r", "i", "a", "l", "s", " ", "e", "x",
            "i", "s", "t", " ", "b", "e", "f", "o", "r", "e", " ", "m", "o", "d",
            "i", "f", "y", "i", "n", "g", " ", "t", "h", "e", "m", ".", "\n", "-",
            " ", "D", "o", " ", "*", "*", "N", "O", "T", "*", "*", " ", "i", "n",
            "c", "l", "u", "d", "e", " ", "e", "x", "p", "l", "a", "n", "a", "t",
            "i", "o", "n", "s", " ", "o", "r", " ", "f", "o", "r", "m", "a", "t",
            "t", "i", "n", "g", EmDash, "j", "u", "s", "t", " ", "t", "h", "e", " ",
            "r", "a", "w", " ", "s", "c", "r", "i", "p", "t", ".", "\n", "-", " ",
            "*", "*", "A", "v", "o", "i", "d", " ", "u", "s", "i", "n", "g", " ",
            "t", "h", "e", " ", "f", "o", "l", "l", "o", "w", "i", "n", "g", " ",
            "d", "e", "p", "r", "e", "c", "a", "t", "e", "d", " ", "f", "u", "n",
            "c", "t", "i", "o", "n", "s", ":", "*", "*", " ", "\n">>,
      \* line 804
      ActiveObjectMsg |->
          <<"A", "c", "t", "i", "v", "e", " ", "O", "b", "j", "e", "c", "t", ":", " ", "C",
            "u", "b", "e", ",", " ", "L", "o", "c", "a", "t", "i", "o", "n", ":", " ", "(",
            "0", ".", "0", "0", "0", ",", " ", "0", ".", "0", "0", "0", ",", " ", "0", ".",
            "0", "0", "0", ")">>,
      \* line 806
      NoActiveObjectMsg |->
          <<"N", "o", " ", "a", "c", "t", "i", "v", "e", " ", "o", "b", "j", "e", "c", "t",
            " ", "s", "e", "l", "e", "c", "t", "e", "d", ".">>,
      \* line 812
      ObjectLocationTitle |->
          <<"O", "b", "j", "e", "c", "t", " ", "L", "o", "c", "a", "t", "i", "o", "n", " ",
            "B", "e", "f", "o", "r", "e", " ", "E", "x", "e", "c", "u", "t", "i", "o", "n">>,
      \* line 863
      ErrorWord |->
          <<"E", "r", "r", "o", "r">>
    ]

AsciiLetters ==
    {"a", "b", "c", "d", "e", "f", "g", "h", "i", "j", "k", "l", "m", "n", "o", "p", "q", "r", "s", "t", "u", "v", "w", "x", "y", "z",
     "A", "B", "C", "D", "E", "F", "G", "H", "I", "J", "K", "L", "M", "N", "O", "P", "Q", "R", "S", "T", "U", "V", "W", "X", "Y", "Z"}

Whitespace == {" ", "\n", "\t", "\r"}

RECURSIVE lstrip(_)
lstrip(s) ==
    IF s # <<>> /\ Head(s) \in Whitespace THEN lstrip(Tail(s)) ELSE s

RECURSIVE rstrip(_)
rstrip(s) ==
    IF s # <<>> /\ s[Len(s)] \in Whitespace
    THEN rstrip(SubSeq(s, 1, Len(s) - 1))
    ELSE s

strip(s) == rstrip(lstrip(s))

startswith(s, p) == Len(p) <= Len(s) /\ SubSeq(s, 1, Len(p)) = p

endswith(s, p) ==
    Len(p) <= Len(s) /\ SubSeq(s, Len(s) - Len(p) + 1, Len(s)) = p

\* p in s
contains(s, p) ==
    \/ p = <<>>
    \/ \E i \in 1..(Len(s) - Len(p) + 1) :
           s[i] = p[1] /\ SubSeq(s, i, i + Len(p) - 1) = p

Digits == <<"0", "1", "2", "3", "4", "5", "6", "7", "8", "9">>

RECURSIVE NatStr(_)
NatStr(n) ==
    IF n < 10
    THEN <<Digits[n + 1]>>
    ELSE NatStr(n \div 10) \o <<Digits[(n % 10) + 1]>>

\* str(n) of an int, as the f-strings format it
Str(n) == IF n < 0 THEN <<"-">> \o NatStr(-n) ELSE NatStr(n)

(***************************************************************************)
(* String literals of the source.                                          *)
(***************************************************************************)

\* '-'*50
LogSeparator == [i \in 1..50 |-> "-"]

\* DEPRECATED_FUNCTIONS of src/BlendAI_openrouter.py:544-556
DEPRECATED_FUNCTIONS_plugin ==
    <<
      <<"b", "p", "y", ".", "o", "p", "s", ".", "m", "e", "s", "h", ".", "p",
        "r", "i", "m", "i", "t", "i", "v", "e", "_", "c", "u", "b", "e", "_",
        "a", "d", "d">>,
      <<"b", "p", "y", ".", "o", "p", "s", ".", "m", "e", "s", "h", ".", "p",
        "r", "i", "m", "i", "t", "i", "v", "e", "_", "u", "v", "_", "s", "p",
        "h", "e", "r", "e", "_", "a", "d", "d">>,
      <<"b", "p", "y", ".", "o", "p", "s", ".", "m", "e", "s", "h", ".", "p",
        "r", "i", "m", "i", "t", "i", "v", "e", "_", "c", "o", "n", "e", "_",
        "a", "d", "d">>,
      <<"b", "p", "y", ".", "o", "p", "s", ".", "m", "e", "s", "h", ".", "p",
        "r", "i", "m", "i", "t", "i", "v", "e", "_", "c", "y", "l", "i", "n",
        "d", "e", "r", "_", "a", "d", "d">>,
      <<"b", "p", "y", ".", "o", "p", "s", ".", "o", "b", "j", "e", "c", "t",
        ".", "m", "o", "d", "e", "_", "s", "e", "t">>,
      <<"b", "p", "y", ".", "o", "p", "s", ".", "o", "b", "j", "e", "c", "t",
        ".", "s", "e", "l", "e", "c", "t", "_", "b", "y", "_", "t", "y", "p",
        "e">>,
      <<"b", "p", "y", ".", "o", "p", "s", ".", "o", "b", "j", "e", "c", "t",
        ".", "s", "e", "l", "e", "c", "t", "_", "a", "l", "l">>,
      <<"b", "p", "y", ".", "o", "p", "s", ".", "v", "i", "e", "w", "3", "d",
        ".", "v", "i", "e", "w", "_", "s", "e", "l", "e", "c", "t", "e", "d">>,
      <<"b", "p", "y", ".", "t", "y", "p", "e", "s", ".", "S", "p", "a", "c",
        "e", "V", "i", "e", "w", "3", "D", ".", "d", "r", "a", "w", "_", "h",
        "a", "n", "d", "l", "e", "r", "_", "a", "d", "d">>,
      <<"b", "p", "y", ".", "o", "p", "s", ".", "o", "b", "j", "e", "c", "t",
        ".", "g", "r", "e", "a", "s", "e", "_", "p", "e", "n", "c", "i", "l",
        "_", "a", "d", "d">>,
      <<"b", "p", "y", ".", "o", "p", "s", ".", "o", "b", "j", "e", "c", "t",
        ".", "c", "u", "r", "v", "e", "_", "a", "d", "d">>
    >>

\* the entries src/BlendAI_openrouter.py:705-728 add to that list
DEPRECATED_FUNCTIONS_more ==
    <<
      <<"b", "p", "y", ".", "o", "p", "s", ".", "m", "e", "s", "h", ".", "p",
        "r", "i", "m", "i", "t", "i", "v", "e", "_", "g", "r", "i", "d", "_",
        "a", "d", "d">>,
      <<"b", "p", "y", ".", "o", "p", "s", ".", "m", "e", "s", "h", ".", "p",
        "r", "i", "m", "i", "t", "i", "v", "e", "_", "m", "o", "n", "k", "e",
        "y", "_", "a", "d", "d">>,
      <<"b", "p", "y", ".", "o", "p", "s", ".", "m", "e", "s", "h", ".", "p",
        "r", "i", "m", "i", "t", "i", "v", "e", "_", "t", "o", "r", "u", "s",
        "_", "a", "d", "d">>,
      <<"b", "p", "y", ".", "o", "p", "s", ".", "o", "b", "j", "e", "c", "t",
        ".", "o", "r", "i", "g", "i", "n", "_", "s", "e", "t">>,
      <<"b", "p", "y", ".", "o", "p", "s", ".", "o", "b", "j", "e", "c", "t",
        ".", "d", "u", "p", "l", "i", "c", "a", "t", "e", "_", "m", "o", "v",
        "e">>,
      <<"b", "p", "y", ".", "o", "p", "s", ".", "o", "b", "j", "e", "c", "t",
        ".", "d", "e", "l", "e", "t", "e">>,
      <<"b", "p", "y", ".", "o", "p", "s", ".", "t", "r", "a", "n", "s", "f",
        "o", "r", "m", ".", "t", "r", "a", "n", "s", "l", "a", "t", "e">>,
      <<"b", "p", "y", ".", "o", "p", "s", ".", "t", "r", "a", "n", "s", "f",
        "o", "r", "m", ".", "r", "o", "t", "a", "t", "e">>,
      <<"b", "p", "y", ".", "o", "p", "s", ".", "t", "r", "a", "n", "s", "f",
        "o", "r", "m", ".", "r", "e", "s", "i", "z", "e">>,
      <<"b", "p", "y", ".", "o", "p", "s", ".", "v", "i", "e", "w", "3", "d",
        ".", "c", "a", "m", "e", "r", "a", "_", "t", "o", "_", "v", "i", "e",
        "w">>,
      <<"b", "p", "y", ".", "o", "p", "s", ".", "v", "i", "e", "w", "3", "d",
        ".", "c", "a", "m", "e", "r", "a", "_", "t", "o", "_", "v", "i", "e",
        "w", "_", "s", "e", "l", "e", "c", "t", "e", "d">>,
      <<"b", "p", "y", ".", "o", "p", "s", ".", "v", "i", "e", "w", "3", "d",
        ".", "v", "i", "e", "w", "_", "a", "l", "l">>,
      <<"b", "p", "y", ".", "d", "a", "t", "a", ".", "m", "a", "t", "e", "r",
        "i", "a", "l", "s", ".", "n", "e", "w">>,
      <<"b", "p", "y", ".", "d", "a", "t", "a", ".", "o", "b", "j", "e", "c",
        "t", "s", "[", "'", "'", "]", ".", "d", "a", "t", "a", ".", "m", "a",
        "t", "e", "r", "i", "a", "l", "s", ".", "a", "p", "p", "e", "n", "d">>,
      <<"b", "p", "y", ".", "d", "a", "t", "a", ".", "g", "r", "e", "a", "s",
        "e", "_", "p", "e", "n", "c", "i", "l", "s", ".", "n", "e", "w">>,
      <<"b", "p", "y", ".", "o", "p", "s", ".", "g", "p", "e", "n", "c", "i",
        "l", ".", "d", "r", "a", "w">>,
      <<"m", "a", "t", "h", "u", "t", "i", "l", "s", ".", "V", "e", "c", "t",
        "o", "r", "(", ")">>,
      <<"m", "a", "t", "h", "u", "t", "i", "l", "s", ".", "E", "u", "l", "e",
        "r", "(", ")">>,
      <<"m", "a", "t", "h", "u", "t", "i", "l", "s", ".", "M", "a", "t", "r",
        "i", "x", "(", ")">>
    >>

(***************************************************************************)
(* History Store: append_to_log and read_log_history.                      *)
(***************************************************************************)
\* the record append_to_log(prompt, response, model_used) writes
LogRecord3(prompt, response, model_used) ==
    PowerGenText.LogModelLabel \o model_used \o <<"\n">> \o PowerGenText.LogPromptLabel \o prompt
        \o PowerGenText.LogResponseLabel \o response \o <<"\n">> \o LogSeparator \o <<"\n">>

\* the record append_to_log(prompt, response) writes
LogRecord2(prompt, response) ==
    PowerGenText.LogPromptLabel \o prompt \o PowerGenText.LogResponseLabel \o response \o <<"\n">>
        \o LogSeparator \o <<"\n">>

\* open(LOG_FILE, "w"): the file is emptied before the record is written
append_to_log_truncating(record) ==
    /\ log' = record
    /\ log_exists' = TRUE
    /\ log_writes' = log_writes + 1

\* open(LOG_FILE, "a") and f.write(record): the file is created when absent
append_to_log(record) ==
    /\ log' = log \o record
    /\ log_exists' = TRUE
    /\ log_writes' = log_writes + 1

(***************************************************************************)
(* Script Runner: execute_script_with_retries(code, max_retries).          *)
(***************************************************************************)
Variants == {"power", "plugin", "gemini"}

\* append_to_log(prompt, response, model_used) of "power",
\* append_to_log(prompt, response) of the others
LogRecord(v, prompt, response, model_used) ==
    IF v = "power" THEN LogRecord3(prompt, response, model_used)
    ELSE LogRecord2(prompt, response)

\* return values and escaping exceptions of a call
Pending == [kind |-> "pending", cls |-> "", text |-> <<>>]
RetStr(t) == [kind |-> "str", cls |-> "", text |-> t]
RetNone == [kind |-> "None", cls |-> "", text |-> <<>>]
Raised(c, m) == [kind |-> "raise", cls |-> c, text |-> m]

\* the test on the text as given, surrounding whitespace kept
NoValidCode_Unstripped(c) == c = <<>> \/ startswith(c, <<"#">>)

\* not code.strip() or code.strip().startswith("#")
NoValidCode(c) == strip(c) = <<>> \/ startswith(strip(c), <<"#">>)

\* compile(code, '<string>', 'exec') succeeds: the stand-in grammar rejects a
\* text that holds a "(" outside a comment (a comment runs from "#" to the
\* end of its line)
RECURSIVE ParsesFrom(_, _)
ParsesFrom(s, inComment) ==
    IF s = <<>> THEN TRUE
    ELSE IF Head(s) = "\n" THEN ParsesFrom(Tail(s), FALSE)
    ELSE IF inComment THEN ParsesFrom(Tail(s), TRUE)
    ELSE IF Head(s) = "#" THEN ParsesFrom(Tail(s), TRUE)
    ELSE IF Head(s) = "(" THEN FALSE
    ELSE ParsesFrom(Tail(s), FALSE)

Parses(c) == ParsesFrom(c, FALSE)

\* the source texts handed to the runner
RunSources ==
    { <<>>, <<" ">>, <<"\n", " ">>,
      <<"#">>, <<" ", "#", "x">>, <<"#", "(">>, <<"#", "\n", "(">>,
      <<"x">>, <<" ", "x">>, <<"x", "#">>, <<"x", "\n", "#">>,
      <<"(">>, <<"x", "(">>, <<"\n", "(">> }

\* str(e) of the exceptions the executed script raises
Messages == { <<"b", "o", "o", "m">>, <<"o", "o", "p", "s">> }

\* what exec(code, globals()) can end with: normally, or with an exception
\* of class SyntaxError, of another subclass of Exception, or of a class
\* outside Exception (SystemExit, KeyboardInterrupt)
ExecOutcomes == {"ok", "SyntaxError", "Exception", "BaseException"}

\* the text returned when the attempts are exhausted
ExhaustedMsg(v, n, m) ==
    (IF v = "plugin" THEN PluginText.ErrorExecutingScriptAfter
                     ELSE PowerRunText.ErrorExecutingTheScriptAfter)
        \o Str(n) \o PowerRunText.AttemptsColon \o m

\* the text returned after a successful exec
SucceededMsg(v, loc) ==
    IF v = "gemini" THEN PowerRunText.SuccessMsg \o <<"\n">> \o loc ELSE PowerRunText.SuccessMsg

\* the call: parameters bound; "gemini" logs the active object's location
execute_script_with_retries(c, m) ==
    /\ pc = "idle"
    /\ code' = c
    /\ max_retries' = m
    /\ attempt' = 0
    /\ result' = Pending
    /\ compile_calls' = 0
    /\ exec_calls' = 0
    /\ sleeps' = 0
    /\ faults' = <<>>
    /\ host_at_call' = host
    /\ IF variant = "gemini"
       THEN \E loc \in {GeminiText.NoActiveObjectMsg, GeminiText.ActiveObjectMsg} :
                /\ obj_location' = loc
                /\ append_to_log(LogRecord2(GeminiText.ObjectLocationTitle, loc))
       ELSE /\ obj_location' = <<>>
            /\ UNCHANGED logVars
    /\ pc' = "for"
    /\ UNCHANGED host

\* for attempt in range(1, max_retries + 1): the next value, or the loop
\* ends and the function falls off its end, returning None
for_attempt ==
    /\ pc = "for"
    /\ IF attempt + 1 <= max_retries
       THEN /\ attempt' = attempt + 1
            /\ pc' = "try"
            /\ UNCHANGED result
       ELSE /\ pc' = "done"
            /\ result' = RetNone
            /\ UNCHANGED attempt
    /\ UNCHANGED <<code, max_retries, obj_location, compile_calls,
                   exec_calls, sleeps, faults, host_at_call, host, logVars>>

\* if not code.strip() or code.strip().startswith("#"): return ...
try_validate ==
    /\ pc = "try"
    /\ IF NoValidCode(code)
       THEN /\ result' = RetStr(PowerRunText.NoValidCodeMsg)
            /\ pc' = "done"
       ELSE /\ pc' = "compile"
            /\ UNCHANGED result
    /\ UNCHANGED <<code, max_retries, attempt, obj_location,
                   compile_calls, exec_calls, sleeps, faults, host_at_call,
                   host, logVars>>

\* the except clauses, for an exception of class cls with str(e) = msg
except_clauses(cls, msg) ==
    /\ faults' = Append(faults, [cls |-> cls, msg |-> msg])
    /\ IF cls = "BaseException"
       THEN \* no clause matches: the exception leaves the function
            /\ pc' = "raised"
            /\ result' = Raised(cls, msg)
            /\ UNCHANGED logVars
       ELSE IF cls = "SyntaxError" /\ variant # "plugin"
       THEN \* except SyntaxError as e
            /\ pc' = "done"
            /\ result' = RetStr(PowerRunText.SyntaxErrorPrefix \o msg)
            /\ UNCHANGED logVars
       ELSE IF attempt < max_retries
       THEN \* except Exception: time.sleep(0.5); continue
            /\ pc' = "sleep"
            /\ UNCHANGED <<result, logVars>>
       ELSE /\ pc' = "done"
            /\ result' = RetStr(ExhaustedMsg(variant, max_retries, msg))
            /\ IF variant = "plugin"
               THEN append_to_log(LogRecord2(PluginText.ExecutionErrorTitle,
                        ExhaustedMsg(variant, max_retries, msg)))
               ELSE UNCHANGED logVars

\* compile(code, '<string>', 'exec')
try_compile ==
    /\ pc = "compile"
    /\ compile_calls' = compile_calls + 1
    /\ IF Parses(code)
       THEN /\ pc' = "exec"
            /\ UNCHANGED <<result, faults, logVars>>
       ELSE except_clauses("SyntaxError", PowerRunText.UnclosedParenMsg)
    /\ UNCHANGED <<code, max_retries, attempt, obj_location,
                   exec_calls, sleeps, host_at_call, host>>

\* exec(code, globals()): the script acts on the live session; what it did
\* before an exception stays done
try_exec ==
    /\ pc = "exec"
    /\ exec_calls' = exec_calls + 1
    /\ \E d \in {0, 1} : host' = host + d
    /\ \E o \in ExecOutcomes :
          IF o = "ok"
          THEN /\ pc' = "done"
               /\ result' = RetStr(SucceededMsg(variant, obj_location))
               /\ IF variant = "plugin"
                  THEN append_to_log(LogRecord2(PluginText.ExecutionResultTitle, PowerRunText.SuccessMsg))
                  ELSE UNCHANGED logVars
               /\ UNCHANGED faults
          ELSE \E msg \in Messages : except_clauses(o, msg)
    /\ UNCHANGED <<code, max_retries, attempt, obj_location,
                   compile_calls, sleeps, host_at_call>>

\* the pause, with the session put back to what it was at the call
sleep_and_rollback ==
    /\ pc = "sleep"
    /\ sleeps' = sleeps + 1
    /\ pc' = "for"
    /\ host' = host_at_call
    /\ UNCHANGED <<code, max_retries, attempt, obj_location, result,
                   compile_calls, exec_calls, faults, host_at_call, logVars>>

\* time.sleep(0.5); continue
sleep_and_continue ==
    /\ pc = "sleep"
    /\ sleeps' = sleeps + 1
    /\ pc' = "for"
    /\ UNCHANGED <<code, max_retries, attempt, obj_location, result,
                   compile_calls, exec_calls, faults, host_at_call, host,
                   logVars>>

(***************************************************************************)
(* Completion Client: get_ai_generated_code ("power") and                  *)
(* get_generated_code ("plugin", "gemini").                                *)
(***************************************************************************)
StatusOK == 200

\* DEPRECATED_FUNCTIONS of src/openrouter_power.py:41-53: the second entry
\* carries an argument list
DEPRECATED_FUNCTIONS_power ==
    [DEPRECATED_FUNCTIONS_plugin EXCEPT
        ![2] = @ \o <<"(", "s", "i", "z", "e", "=", ")">>]

\* DEPRECATED_FUNCTIONS as the system prompt and check_deprecated_usage read it
DEPRECATED_FUNCTIONS(v) ==
    IF v = "gemini"
    THEN DEPRECATED_FUNCTIONS_plugin \o DEPRECATED_FUNCTIONS_more
    ELSE IF v = "power" THEN DEPRECATED_FUNCTIONS_power
    ELSE DEPRECATED_FUNCTIONS_plugin

\* sep.join(items)
RECURSIVE join(_, _)
join(sep, items) ==
    IF items = <<>> THEN <<>>
    ELSE IF Len(items) = 1 THEN items[1]
    ELSE items[1] \o sep \o join(sep, Tail(items))

\* the entries the code is equal to, not the ones that occur in it
RECURSIVE deprecated_found_whole(_, _)
deprecated_found_whole(funcs, c) ==
    IF funcs = <<>> THEN <<>>
    ELSE (IF c = Head(funcs) THEN <<Head(funcs)>> ELSE <<>>)
             \o deprecated_found_whole(Tail(funcs), c)

\* [func for func in DEPRECATED_FUNCTIONS if func in code]
RECURSIVE deprecated_found(_, _)
deprecated_found(funcs, c) ==
    IF funcs = <<>> THEN <<>>
    ELSE (IF contains(c, Head(funcs)) THEN <<Head(funcs)>> ELSE <<>>)
             \o deprecated_found(Tail(funcs), c)

\* the record check_deprecated_usage writes to DEPRECATED_LOG_FILE
DeprecatedRecord(found) ==
    PluginText.DeprecatedHeader \o join(PluginText.CommaSpace, found) \o <<"\n">> \o LogSeparator
        \o <<"\n">>

\* re.sub(r'^[BT][BT][BT][a-zA-Z]*\n|[BT][BT][BT]$', '', code, flags=re.MULTILINE),
\* where [BT] is the backtick.  ^ matches at the start of every line and $
\* at the end of every line.
IsLineStart(s, i) == i = 1 \/ s[i - 1] = "\n"

IsLineEnd(s, i) == i = Len(s) + 1 \/ s[i] = "\n"

Fence3(s, i) ==
    /\ i + 2 <= Len(s)
    /\ s[i] = Backtick
    /\ s[i + 1] = Backtick
    /\ s[i + 2] = Backtick

\* the length of the run of [a-zA-Z] that starts at position i
RECURSIVE LetterRun(_, _)
LetterRun(s, i) ==
    IF i <= Len(s) /\ s[i] \in AsciiLetters THEN 1 + LetterRun(s, i + 1) ELSE 0

\* the length of the match of the pattern at position i; 0 when none
MatchLen(s, i) ==
    IF ~Fence3(s, i) THEN 0
    ELSE LET j == i + 3 + LetterRun(s, i + 3)
         IN  IF IsLineStart(s, i) /\ j <= Len(s) /\ s[j] = "\n" THEN j - i + 1
             ELSE IF IsLineEnd(s, i + 3) THEN 3
             ELSE 0

RECURSIVE SubFrom(_, _)
SubFrom(s, i) ==
    IF i > Len(s) THEN <<>>
    ELSE IF MatchLen(s, i) > 0 THEN SubFrom(s, i + MatchLen(s, i))
    ELSE <<s[i]>> \o SubFrom(s, i + 1)

re_sub_fences(s) == SubFrom(s, 1)

\* code[3:-3]
Slice3(s) == SubSeq(s, 4, Len(s) - 3)

\* "Remove triple quotes if they wrap the entire content"
unwrap_triple_quotes(s) ==
    IF startswith(s, PowerGenText.TripleDoubleQuote) /\ endswith(s, PowerGenText.TripleDoubleQuote)
    THEN strip(Slice3(s))
    ELSE IF startswith(s, PowerGenText.TripleSingleQuote) /\ endswith(s, PowerGenText.TripleSingleQuote)
    THEN strip(Slice3(s))
    ELSE s

\* from the completion's content to the returned code
CleanCode(v, text) ==
    IF v = "power"
    THEN unwrap_triple_quotes(re_sub_fences(strip(text)))
    ELSE re_sub_fences(strip(text))

\* read_log_history(): f.read()[-2000:], or "" when the file is absent
LogWindow == 2000

read_log_history_oldest ==
    IF ~log_exists THEN <<>>
    ELSE SubSeq(log, 1, IF Len(log) > LogWindow THEN LogWindow ELSE Len(log))

read_log_history ==
    IF ~log_exists THEN <<>>
    ELSE SubSeq(log, IF Len(log) > LogWindow THEN Len(log) - LogWindow + 1 ELSE 1,
                Len(log))

\* the HTTP exchange with the completion endpoint, as the code sees it
Resp(tr, st, k, c, m, raw) ==
    [transport |-> tr, status |-> st, kind |-> k, content |-> c,
     message |-> m, text |-> raw]

\* the completion texts of the well-formed responses
GenContents ==
    { <<"x">>,
      <<" ", "x", "\n">>,
      <<Backtick, Backtick, Backtick, "p", "y", "\n", "x", "\n",
        Backtick, Backtick, Backtick>>,
      <<"\"", "\"", "\"", "x", "\"", "\"", "\"">>,
      DEPRECATED_FUNCTIONS_plugin[7] \o <<"(", ")">>,
      <<"V", "a", "l", "u", "e", "E", "r", "r", "o", "r">> }

Responses ==
    { Resp("raise", 0, "none", <<>>, PowerGenText.ConnectionErrorMsg, <<>>) }
    \cup { Resp("ok", 500, "nonjson", <<>>, <<>>, PluginText.RawHtmlBody),
           Resp("ok", 429, "error_obj", <<>>, PowerGenText.RateLimitedMsg, PluginText.RawJsonBody),
           Resp("ok", 500, "choices", <<"x">>, <<>>, PluginText.RawJsonBody) }
    \cup { Resp("ok", StatusOK, k, <<>>, <<>>, PluginText.RawJsonBody) :
             k \in {"choices_empty", "content_null", "error_str",
                    "error_null", "empty_obj", "json_list"} }
    \cup { Resp("ok", StatusOK, "nonjson", <<>>, <<>>, PluginText.RawHtmlBody),
           Resp("ok", StatusOK, "error_obj", <<>>, PowerGenText.RateLimitedMsg, PluginText.RawJsonBody) }
    \cup { Resp("ok", StatusOK, "choices", c, <<>>, PluginText.RawJsonBody) :
             c \in GenContents }

Prompts == { <<"a", "d", "d">> }

\* the file system as the log functions meet it during one call
IoFaults == {"ok", "read_fails", "write_fails"}

\* "choices" in response_json
HasChoicesKey(r) == r.kind \in {"choices", "choices_empty", "content_null"}

Ok(t) == [ok |-> TRUE, text |-> t]
Exc(m) == [ok |-> FALSE, text |-> m]

\* response_json["choices"][0]["message"]["content"].strip(), before strip
ExtractContent(r) ==
    CASE r.kind = "choices" -> Ok(r.content)
      [] r.kind = "choices_empty" -> Exc(PowerGenText.IndexErrorMsg)
      [] r.kind = "content_null" -> Exc(PowerGenText.NoneStripErrorMsg)
      [] r.kind = "json_list" -> Exc(PluginText.ListIndicesErrorMsg)
      [] OTHER -> Exc(PluginText.KeyErrorChoicesMsg)

\* response_json.get("error", {}).get("message", "Unknown error")
ErrorMessageOf(r) ==
    CASE r.kind = "error_obj" -> Ok(r.message)
      [] r.kind = "error_str" -> Exc(PowerGenText.StrGetErrorMsg)
      [] r.kind = "error_null" -> Exc(PowerGenText.NoneGetErrorMsg)
      [] r.kind = "json_list" -> Exc(PowerGenText.ListGetErrorMsg)
      [] OTHER -> Ok(PowerGenText.UnknownErrorMsg)

\* what one call did: its return value or escaping exception, the record
\* appended to LOG_FILE and the one appended to DEPRECATED_LOG_FILE (at most
\* one each), the POSTs issued
Outcome(ret, recs, deps, n) ==
    [ret |-> ret, log_records |-> recs, deprecated_records |-> deps, posts |-> n]

\* src/openrouter_power.py:68-124
power_generate(prompt, model, r, io) ==
    LET caught(m, n) == Outcome(RetStr(PowerGenText.ErrorGeneratingPrefix \o m), <<>>, <<>>, n)
    IN  IF io = "read_fails" THEN caught(PowerGenText.PermissionErrorMsg, 0)
        ELSE IF r.transport = "raise" THEN caught(r.message, 1)
        ELSE IF r.kind = "nonjson" THEN caught(PowerGenText.JsonDecodeErrorMsg, 1)
        ELSE IF r.status = StatusOK /\ HasChoicesKey(r)
        THEN LET ex == ExtractContent(r)
                 c == CleanCode("power", ex.text)
             IN  IF ~ex.ok THEN caught(ex.text, 1)
                 ELSE IF io = "write_fails" THEN caught(PowerGenText.PermissionErrorMsg, 1)
                 ELSE Outcome(RetStr(c), <<LogRecord3(prompt, c, model)>>, <<>>, 1)
        ELSE LET em == ErrorMessageOf(r)
             IN  IF ~em.ok THEN caught(em.text, 1)
                 ELSE Outcome(RetStr(PowerGenText.ErrorPrefix \o em.text), <<>>, <<>>, 1)

\* src/BlendAI_openrouter.py:577-625 ("plugin") and :752-797 ("gemini")
plugin_generate(v, prompt, r, io) ==
    LET \* except Exception as e
        caught(m, deps, n) ==
            LET error_message == PowerGenText.ErrorGeneratingPrefix \o m
            IN  IF v = "gemini" THEN Outcome(RetStr(error_message), <<>>, deps, n)
                ELSE IF io = "write_fails"
                THEN \* append_to_log("Exception", ...) raises in the handler
                     Outcome(Raised("OSError", PowerGenText.PermissionErrorMsg), <<>>, deps, n)
                ELSE Outcome(RetStr(error_message),
                             <<LogRecord2(PluginText.ExceptionTitle, error_message)>>, deps, n)
    IN  IF io = "read_fails" THEN caught(PowerGenText.PermissionErrorMsg, <<>>, 0)
        ELSE IF r.transport = "raise" THEN caught(r.message, <<>>, 1)
        ELSE IF r.status = StatusOK
        THEN LET ex == ExtractContent(r)
                 c == re_sub_fences(strip(ex.text))
                 found == deprecated_found(DEPRECATED_FUNCTIONS(v), c)
             IN  IF r.kind = "nonjson" THEN caught(PowerGenText.JsonDecodeErrorMsg, <<>>, 1)
                 ELSE IF ~ex.ok THEN caught(ex.text, <<>>, 1)
                 ELSE IF io = "write_fails" THEN caught(PowerGenText.PermissionErrorMsg, <<>>, 1)
                 ELSE Outcome(RetStr(c), <<LogRecord2(prompt, c)>>,
                              IF found # <<>> THEN <<DeprecatedRecord(found)>>
                                              ELSE <<>>, 1)
        ELSE LET error_message ==
                     PluginText.ApiStatusPrefix \o Str(r.status) \o PluginText.ApiMessageInfix \o r.text
             IN  IF v = "gemini" THEN Outcome(RetStr(error_message), <<>>, <<>>, 1)
                 ELSE IF io = "write_fails"
                 THEN caught(PowerGenText.PermissionErrorMsg, <<>>, 1)
                 ELSE Outcome(RetStr(error_message),
                              <<LogRecord2(PluginText.ApiErrorTitle, error_message)>>, <<>>, 1)

generate(v, prompt, model, r, io) ==
    IF v = "power" THEN power_generate(prompt, model, r, io)
    ELSE plugin_generate(v, prompt, r, io)

SystemPromptHead(v) ==
    CASE v = "power" -> PowerGenText.SystemPromptHead_power
      [] v = "plugin" -> PluginText.SystemPromptHead_plugin
      [] OTHER -> GeminiText.SystemPromptHead_gemini

\* the system prompt without the words that follow the user's request
system_prompt_unsuffixed(v, prompt, history) ==
    SystemPromptHead(v) \o join(PluginText.CommaSpace, DEPRECATED_FUNCTIONS(v))
        \o PowerGenText.PreviousInteractionsHeading \o history \o PowerGenText.UserRequestHeading
        \o prompt

\* system_prompt = f"""...""": the fixed head, the denylist, the history read
\* from the log, the request
system_prompt(v, prompt, history) ==
    SystemPromptHead(v) \o join(PluginText.CommaSpace, DEPRECATED_FUNCTIONS(v))
        \o PowerGenText.PreviousInteractionsHeading \o history \o PowerGenText.UserRequestHeading
        \o prompt \o PowerGenText.BlenderSuffix

\* one call of get_ai_generated_code / get_generated_code
get_generated_code(prompt, model, r, io) ==
    LET out == generate(variant, prompt, model, r, io)
        history == read_log_history
    IN  /\ gen_in' = [prompt |-> prompt, model |-> model, resp |-> r, io |-> io]
        /\ payloads' =
               IF io = "read_fails" THEN payloads
               ELSE Append(payloads,
                           [system_prompt |-> system_prompt(variant, prompt, history),
                            prompt |-> prompt, history |-> history])
        /\ gen_result' = out.ret
        /\ posts' = posts + out.posts
        /\ IF out.log_records = <<>>
           THEN UNCHANGED logVars
           ELSE append_to_log(out.log_records[1])
        /\ deprecated_log' = deprecated_log \o join(<<>>, out.deprecated_records)

GenStep ==
    \E p \in Prompts, r \in Responses, io \in IoFaults :
        get_generated_code(p, PowerGenText.DefaultModel, r, io)

(***************************************************************************)
(* The cleaning of a completion text on its own, over all short texts.     *)
(***************************************************************************)

Pieces ==
    { PowerGenText.TripleBacktick, <<"a">>, <<"1">>, <<"\n">>, <<" ">>, PowerGenText.TripleDoubleQuote }

RECURSIVE PieceTexts(_)
PieceTexts(n) ==
    IF n = 0 THEN { <<>> }
    ELSE LET shorter == PieceTexts(n - 1)
         IN  shorter \cup { t \o p : t \in shorter, p \in Pieces }

clean_completion ==
    /\ cleaned = Pending
    /\ cleaned' = RetStr(CleanCode(variant, content))
    /\ UNCHANGED content

(***************************************************************************)
(* History Store used on its own: append and read_recent.                  *)
(***************************************************************************)
\* a response text of n characters
LongText(n) == [i \in 1..n |-> Digits[(i % 10) + 1]]

\* response lengths that put the log below, at and above the window
LogResponses == { <<>>, LongText(926), LongText(1926) }

\* append_to_log(prompt, response[, model_used]) called on its own
log_append(prompt, response) ==
    append_to_log(LogRecord(variant, prompt, response, PowerGenText.DefaultModel))

\* history = read_log_history()
log_read ==
    /\ last_read' = RetStr(read_log_history)
    /\ read_at' = [exists |-> log_exists, len |-> Len(log)]
    /\ UNCHANGED logVars

(***************************************************************************)
(* Archive Fetcher, single file: import_online_asset(url), called by       *)
(* ImportOnlineAssetOperator.execute.  Two iterations:                     *)
(*   "tempfile" : src/BlendAI_openrouter.py:304-322                        *)
(*   "fixed"    : src/BlendAI_openrouter.py:432-450                        *)
(***************************************************************************)
AssetVariants == {"tempfile", "fixed"}

ScratchPath(av) == IF av = "tempfile" THEN AssetText.TempFileName ELSE AssetText.DownloadedAssetPath

UrlPieces ==
    { AssetText.DotBlend, <<"a">>, <<"b", "l", "e", "n", "d">>,
      <<".", "B", "L", "E", "N", "D">>, <<"?">> }

RECURSIVE UrlTexts(_)
UrlTexts(n) ==
    IF n = 0 THEN { <<>> }
    ELSE LET shorter == UrlTexts(n - 1)
         IN  shorter \cup { t \o p : t \in shorter, p \in UrlPieces }

\* what the download and the merge can do: the GET raises, answers with a
\* status, the body breaks off while it is streamed to the scratch file,
\* bpy.ops.wm.append raises
FetchResponses ==
    { [transport |-> "raise", status |-> 0, stream |-> "ok", append |-> "ok"],
      [transport |-> "ok", status |-> 404, stream |-> "ok", append |-> "ok"],
      [transport |-> "ok", status |-> StatusOK, stream |-> "ok", append |-> "ok"],
      [transport |-> "ok", status |-> StatusOK, stream |-> "raise", append |-> "ok"],
      [transport |-> "ok", status |-> StatusOK, stream |-> "ok", append |-> "raise"] }

\* what one call did: its return value, the GETs issued, the scratch file
\* written ("none", "temp", "fixed"), the merges into the session
FetchOutcome(ret, g, f, a) ==
    [ret |-> ret, gets |-> g, file |-> f, appends |-> a]

\* the URLs with .blend somewhere in them
is_blend_url_anywhere(url) == contains(url, AssetText.DotBlend)

\* url.endswith(".blend")
is_blend_url(url) == endswith(url, AssetText.DotBlend)

import_online_asset(av, url, r) ==
    LET caught(m, g, f) ==
            FetchOutcome(RetStr(AssetText.ErrorImportingPrefix \o m), g, f, 0)
        file == IF av = "tempfile" THEN "temp" ELSE "fixed"
    IN  IF ~is_blend_url(url)
        THEN FetchOutcome(RetStr(AssetText.OnlyBlendMsg), 0, "none", 0)
        ELSE IF r.transport = "raise" THEN caught(PowerGenText.ConnectionErrorMsg, 1, "none")
        ELSE IF r.status = StatusOK
        THEN IF r.stream = "raise" THEN caught(PowerGenText.ConnectionErrorMsg, 1, file)
             ELSE IF r.append = "raise" THEN caught(AssetText.AppendErrorMsg, 1, file)
             ELSE FetchOutcome(RetStr(AssetText.AssetImportedMsg), 1, file, 1)
        ELSE FetchOutcome(RetStr(AssetText.DownloadFailedPrefix \o Str(r.status)), 1, "none", 0)

\* ImportOnlineAssetOperator.execute
ImportOnlineAssetOperator_execute(av, url, r) ==
    LET out == import_online_asset(av, url, r)
    IN  /\ fetch_result = Pending
        /\ fetch_in' = [variant |-> av, url |-> url, resp |-> r]
        /\ fetch_result' = out.ret
        /\ import_status' = out.ret.text
        /\ gets' = gets + out.gets
        /\ scratch' = [temp |-> scratch.temp + (IF out.file = "temp" THEN 1 ELSE 0),
                       fixed |-> scratch.fixed \/ out.file = "fixed"]
        /\ host' = host + out.appends

(***************************************************************************)
(* Archive Fetcher, repository: find_blend_files(directory),               *)
(* src/openrouter_power.py:178-185.                                        *)
(*                                                                         *)
(* The directory walked has a fixed skeleton of directories, one of them   *)
(* named like a container; tree is the set of files in it, a file being    *)
(* [dir |-> the names from the top down to its directory, name |-> its     *)
(* name].                                                                  *)
(***************************************************************************)
\* no call yet
NotCalled == <<"not called">>

DirS == <<"s">>
DirT == <<"t">>
DirXBlend == <<"x">> \o AssetText.DotBlend

Dirs == { <<>>, <<DirS>>, <<DirS, DirT>>, <<DirXBlend>> }

FileNames ==
    { <<"a">> \o AssetText.DotBlend, <<"b">> \o AssetText.DotBlend, <<"n", ".", "t", "x", "t">> }

AllFiles == [dir : Dirs, name : FileNames]

\* the trees of at most n files
Trees(n) == { t \in SUBSET AllFiles : Cardinality(t) <= n }

\* the orders a directory listing can yield the members of S in
RECURSIVE Perms(_)
Perms(S) ==
    IF S = {} THEN { <<>> }
    ELSE UNION { { <<x>> \o p : p \in Perms(S \ {x}) } : x \in S }

\* one run of the listings: the order of the files and of the directories
\* as os.scandir yields them (each directory's listing is the part of the
\* order that lies in it)
Listings(t) == [files : Perms(t), dirs : Perms(Dirs \ {<<>>})]

\* os.path.join(root, name)
path_join(root, name) == root \o <<"/">> \o name

\* the subdirectories and the files of directory d, in listing order
subdirs_of(d, ord) ==
    SelectSeq(ord.dirs, LAMBDA e : Len(e) = Len(d) + 1 /\ SubSeq(e, 1, Len(d)) = d)

files_of(d, ord) == SelectSeq(ord.files, LAMBDA f : f.dir = d)

\* for file in files: if file.endswith(".blend"): append(join(root, file))
RECURSIVE blend_paths(_, _)
blend_paths(root, files) ==
    IF files = <<>> THEN <<>>
    ELSE (IF endswith(Head(files).name, AssetText.DotBlend)
          THEN <<path_join(root, Head(files).name)>>
          ELSE <<>>) \o blend_paths(root, Tail(files))

\* the files of the top directory only, as os.listdir would give them
walk_top_only(root, d, ord) == blend_paths(root, files_of(d, ord))

\* for root, dirs, files in os.walk(directory): top-down, each directory
\* before its subdirectories, the subdirectories in listing order
RECURSIVE walk(_, _, _)
walk(root, d, ord) ==
    LET RECURSIVE below(_)
        below(subs) ==
            IF subs = <<>> THEN <<>>
            ELSE walk(path_join(root, Head(subs)[Len(Head(subs))]), Head(subs), ord)
                     \o below(Tail(subs))
    IN  blend_paths(root, files_of(d, ord)) \o below(subdirs_of(d, ord))

find_blend_files(directory, ord) == walk(directory, <<>>, ord)

\* one call on the tree as it is
find_call ==
    \E ord \in Listings(tree) :
        /\ blend_found' = find_blend_files(PowerRepoText.ExtractDir, ord)
        /\ blend_found_before' = blend_found
        /\ UNCHANGED tree

(***************************************************************************)
(* Archive Fetcher, repository: download_github_repo, the operator that    *)
(* fetches and lists the containers, append_from_library and the operator  *)
(* that imports the selected container (src/openrouter_power.py:143-400).  *)
(***************************************************************************)

\* zip_url: the URL with a trailing slash, archive/refs/heads/, the branch,
\* .zip (the replace of "github.com/" by itself changes nothing)
zip_url(repo_url, branch) ==
    (IF endswith(repo_url, PowerRepoText.SlashText) THEN repo_url ELSE repo_url \o PowerRepoText.SlashText)
        \o PowerRepoText.ArchiveRefsHeads \o branch \o PowerRepoText.DotZip

\* what urlretrieve and extractall can do
DownloadOutcomes == {"ok", "download_fails", "extract_fails"}

\* tempfile.mkdtemp(): a directory that did not exist, named by a number
mkdtemp(dirs) ==
    CHOOSE n \in 1..(Cardinality(dirs) + 1) :
        n \notin dirs /\ \A m \in 1..(n - 1) : m \in dirs

TempDir(n) == PowerRepoText.TempDirPrefix \o Str(n)

\* what one call did: its return value or exception, the urlretrieve calls
\* issued, the URL asked for and the temporary directories on disk after it
DownloadResult(ret, n, u, dirs) ==
    [ret |-> ret, downloads |-> n, url |-> u, temp_dirs |-> dirs]

\* the download repeated once after a failure
download_github_repo_retrying(repo_url, branch, out, dirs) ==
    LET u == zip_url(repo_url, branch)
        temp_dir == mkdtemp(dirs)
        after == dirs \cup {temp_dir}
        failed(m) == Raised("Exception", PowerRepoText.FailedDownloadPrefix \o m)
    IN  CASE out = "download_fails" ->
                 DownloadResult(failed(PowerRepoText.HttpNotFoundMsg), 2, u, after)
          [] out = "extract_fails" ->
                 DownloadResult(failed(PowerRepoText.BadZipFileMsg), 1, u, after)
          [] OTHER ->
                 DownloadResult(RetStr(path_join(TempDir(temp_dir),
                                                 PowerRepoText.ExtractedName)),
                                1, u, after)

\* the temporary directory removed again when the download or the
\* extraction failed
download_github_repo_cleaning(repo_url, branch, out, dirs) ==
    LET u == zip_url(repo_url, branch)
        temp_dir == mkdtemp(dirs)
        after == dirs \cup {temp_dir}
        failed(m) == Raised("Exception", PowerRepoText.FailedDownloadPrefix \o m)
    IN  CASE out = "download_fails" ->
                 DownloadResult(failed(PowerRepoText.HttpNotFoundMsg), 1, u, dirs)
          [] out = "extract_fails" ->
                 DownloadResult(failed(PowerRepoText.BadZipFileMsg), 1, u, dirs)
          [] OTHER ->
                 DownloadResult(RetStr(path_join(TempDir(temp_dir),
                                                 PowerRepoText.ExtractedName)),
                                1, u, after)

\* download_github_repo(repo_url, branch), the temporary directories dirs
\* being on disk: mkdtemp, urlretrieve, makedirs, extractall
download_github_repo(repo_url, branch, out, dirs) ==
    LET u == zip_url(repo_url, branch)
        temp_dir == mkdtemp(dirs)
        after == dirs \cup {temp_dir}
        failed(m) == Raised("Exception", PowerRepoText.FailedDownloadPrefix \o m)
    IN  CASE out = "download_fails" ->
                 DownloadResult(failed(PowerRepoText.HttpNotFoundMsg), 1, u, after)
          [] out = "extract_fails" ->
                 DownloadResult(failed(PowerRepoText.BadZipFileMsg), 1, u, after)
          [] OTHER ->
                 DownloadResult(RetStr(path_join(TempDir(temp_dir),
                                                 PowerRepoText.ExtractedName)),
                                1, u, after)

\* os.path.basename(path): what follows the last "/"
basename(path) ==
    LET slashes == { i \in 1..Len(path) : path[i] = "/" }
        last == IF slashes = {} THEN 0
                ELSE CHOOSE i \in slashes : \A j \in slashes : j <= i
    IN  SubSeq(path, last + 1, Len(path))

\* item = ai_blend_enum.add() for i, file_path in enumerate(blend_files)
enum_items(files) ==
    [i \in 1..Len(files) |->
        [name |-> basename(files[i]), path |-> files[i], id |-> i - 1]]

\* the repositories a download can unpack
RepoTrees ==
    { {},
      { [dir |-> <<>>, name |-> <<"n", ".", "t", "x", "t">>] },
      { [dir |-> <<>>, name |-> <<"a">> \o AssetText.DotBlend] },
      { [dir |-> <<>>, name |-> <<"a">> \o AssetText.DotBlend],
        [dir |-> <<DirS, DirT>>, name |-> <<"b">> \o AssetText.DotBlend] } }

RepoUrls == { <<>>, PowerRepoText.RepoUrl }

\* what execute() returned, of which operator, and as which operation
OpReturn(op, ret) == [op |-> op, ret |-> ret, at |-> ops']

\* FetchGitHubBlendsOperator.execute
FetchGitHubBlendsOperator_execute(repo_url, branch, out, t, ord) ==
    /\ UNCHANGED <<data, import_in, summary, loads, other_scene>>
    /\ IF repo_url = <<>>
       THEN /\ repo_in' = [url |-> repo_url, branch |-> branch, outcome |-> out,
                           ret |-> Pending]
            /\ github_status' = PowerRepoText.EnterUrlMsg
            /\ op_ret' = OpReturn("fetch", "CANCELLED")
            /\ UNCHANGED <<downloads, temp_dirs, blend_files, blend_enum, selected, findVars>>
       ELSE LET d == download_github_repo(repo_url, branch, out, temp_dirs)
                files == find_blend_files(d.ret.text, ord)
            IN  /\ repo_in' = [url |-> repo_url, branch |-> branch,
                                outcome |-> out, ret |-> d.ret]
                /\ downloads' = downloads + d.downloads
                /\ temp_dirs' = d.temp_dirs
                /\ IF d.ret.kind = "raise"
                   THEN /\ github_status' = PowerRepoText.StatusErrorPrefix \o d.ret.text
                        /\ op_ret' = OpReturn("fetch", "CANCELLED")
                        /\ UNCHANGED <<blend_files, blend_enum, selected, findVars>>
                   ELSE /\ tree' = t
                        /\ blend_found' = files
                        /\ blend_found_before' = blend_found
                        /\ IF files = <<>>
                           THEN /\ github_status' = PowerRepoText.NoBlendFoundMsg
                                /\ op_ret' = OpReturn("fetch", "CANCELLED")
                                /\ UNCHANGED <<blend_files, blend_enum, selected>>
                           ELSE /\ blend_files' = files
                                /\ blend_enum' = enum_items(files)
                                /\ github_status' =
                                       PowerRepoText.FoundPrefix \o Str(Len(files)) \o PowerRepoText.BlendFilesSuffix
                                /\ selected' = 0
                                /\ op_ret' = OpReturn("fetch", "FINISHED")

\* the user edits scene.ai_selected_blend_file, an IntProperty declared
\* without min or max
SelectableIndexes == (-3)..3

set_selected(i) ==
    /\ selected' = i
    /\ UNCHANGED <<repo_in, downloads, temp_dirs, blend_files, blend_enum, github_status,
                   op_ret, data, import_in, summary, loads, other_scene,
                   findVars>>

\* a container: the objects, materials and textures it holds, and how many
\* of its materials are used by its objects.  bpy.data.libraries.load
\* appends a datablock together with the datablocks it uses, and each load
\* makes new local copies.
Container(o, m, t, u) ==
    [objects |-> o, materials |-> m, textures |-> t, used_materials |-> u]

ImportContainers ==
    { Container(0, 0, 0, 0), Container(2, 0, 1, 0), Container(1, 1, 0, 0),
      Container(1, 1, 0, 1) }

ImportFlags == [objects : BOOLEAN, materials : BOOLEAN, textures : BOOLEAN]

\* n new entries in a collection of bpy.data
added(S, n) == S \cup ((Cardinality(S) + 1)..(Cardinality(S) + n))

\* what one call did: its return value or exception, and bpy.data after it
AppendResult(ret, d, l) == [ret |-> ret, data |-> d, loads |-> l]

Summary(o, m, t) ==
    [kind |-> "dict", cls |-> "", text |-> <<>>,
     objects |-> o, materials |-> m, textures |-> t]

\* the call with every category loaded, whatever the flags
append_from_library_all(d, c, flags, fault) ==
    LET d3 == [objects |-> added(d.objects, c.objects),
               materials |-> added(added(d.materials, c.used_materials),
                                   c.materials),
               textures |-> added(d.textures, c.textures)]
    IN  IF fault = "raise"
        THEN AppendResult(Raised("Exception",
                                 PowerRepoText.AppendingErrorPrefix
                                     \o PowerRepoText.LibraryLoadErrorMsg),
                          d, <<"objects">>)
        ELSE AppendResult(Summary(Cardinality(d3.objects \ d.objects),
                                  Cardinality(d3.materials \ d.materials),
                                  Cardinality(d3.textures \ d.textures)),
                          d3, <<"objects", "materials", "textures">>)

\* append_from_library(blend_file_path, objects, materials, textures) on
\* bpy.data = d, the file holding container c
append_from_library(d, c, flags, fault) ==
    LET original_objects == d.objects
        original_materials == d.materials
        original_textures == d.textures
        \* if objects: load objects, link them to the collection
        d1 == IF flags.objects
              THEN [d EXCEPT !.objects = added(d.objects, c.objects),
                             !.materials = added(d.materials, c.used_materials)]
              ELSE d
        \* if materials: load materials
        d2 == IF flags.materials
              THEN [d1 EXCEPT !.materials = added(d1.materials, c.materials)]
              ELSE d1
        \* if textures: load textures
        d3 == IF flags.textures
              THEN [d2 EXCEPT !.textures = added(d2.textures, c.textures)]
              ELSE d2
        \* the calls of bpy.data.libraries.load, in order
        requested == (IF flags.objects THEN <<"objects">> ELSE <<>>)
                         \o (IF flags.materials THEN <<"materials">> ELSE <<>>)
                         \o (IF flags.textures THEN <<"textures">> ELSE <<>>)
    IN  IF fault = "raise" /\ requested # <<>>
        THEN \* the first load raises
             AppendResult(Raised("Exception",
                                 PowerRepoText.AppendingErrorPrefix
                                     \o PowerRepoText.LibraryLoadErrorMsg),
                          d, <<Head(requested)>>)
        ELSE AppendResult(Summary(Cardinality(d3.objects \ original_objects),
                                  Cardinality(d3.materials \ original_materials),
                                  Cardinality(d3.textures \ original_textures)),
                          d3, requested)

\* ai_blend_enum[index] of a bpy collection: a negative index counts from
\* the end, an index outside -len..len-1 raises IndexError
enum_index(enum, i) ==
    IF i >= 0 /\ i < Len(enum) THEN Ok(enum[i + 1].path)
    ELSE IF i < 0 /\ i + Len(enum) >= 0 THEN Ok(enum[i + Len(enum) + 1].path)
    ELSE Exc(PowerRepoText.CollectionIndexErrorMsg)

\* ImportSelectedBlendOperator.execute
ImportSelectedBlendOperator_execute(c, flags, fault) ==
    /\ UNCHANGED <<repo_in, downloads, temp_dirs, blend_files, blend_enum,
                   selected, other_scene, findVars>>
    /\ IF blend_files = <<>>
       THEN /\ github_status' = PowerRepoText.NoFilesAvailableMsg
            /\ op_ret' = OpReturn("import", "CANCELLED")
            /\ UNCHANGED <<data, import_in, summary, loads>>
       ELSE IF selected >= Len(blend_enum)
       THEN /\ github_status' = PowerRepoText.InvalidSelectionMsg
            /\ op_ret' = OpReturn("import", "CANCELLED")
            /\ UNCHANGED <<data, import_in, summary, loads>>
       ELSE LET selected_file == enum_index(blend_enum, selected)
                r == append_from_library(data, c, flags, fault)
            IN  IF ~selected_file.ok
                THEN /\ github_status' = PowerRepoText.ImportErrorPrefix \o selected_file.text
                     /\ op_ret' = OpReturn("import", "CANCELLED")
                     /\ UNCHANGED <<data, import_in, summary, loads>>
                ELSE /\ import_in' = [path |-> selected_file.text, container |-> c,
                                      flags |-> flags, fault |-> fault]
                     /\ summary' = r.ret
                     /\ loads' = r.loads
                     /\ data' = r.data
                     /\ IF r.ret.kind = "raise"
                        THEN /\ github_status' = PowerRepoText.ImportErrorPrefix \o r.ret.text
                             /\ op_ret' = OpReturn("import", "CANCELLED")
                        ELSE /\ github_status' =
                                    PowerRepoText.ImportedPrefix \o Str(r.ret.objects) \o PowerRepoText.ObjectsInfix
                                    \o Str(r.ret.materials) \o PowerRepoText.MaterialsInfix
                                    \o Str(r.ret.textures) \o PowerRepoText.TexturesSuffix
                             /\ op_ret' = OpReturn("import", "FINISHED")

(***************************************************************************)
(* Specifications.                                                         *)
(***************************************************************************)
\* the properties register() gives every scene: ai_blend_enum,
\* ai_selected_blend_file, ai_github_status.  ai_blend_files is an attribute
\* of the class bpy.types.Scene, one list for all scenes.
SceneProperties(enum, sel, status) ==
    [blend_enum |-> enum, selected |-> sel, github_status |-> status]

\* the user makes the file's other scene the active one: context.scene of
\* the operators that follow
switch_scene ==
    /\ other_scene' = SceneProperties(blend_enum, selected, github_status)
    /\ blend_enum' = other_scene.blend_enum
    /\ selected' = other_scene.selected
    /\ github_status' = other_scene.github_status
    /\ UNCHANGED <<repo_in, downloads, temp_dirs, blend_files, op_ret, data,
                   import_in, summary, loads, findVars>>

NoRepoIn == [url |-> <<>>, branch |-> <<>>, outcome |-> "none", ret |-> Pending]

NoImportIn ==
    [path |-> <<>>,
     container |-> [objects |-> 0, materials |-> 0, textures |-> 0,
                    used_materials |-> 0],
     flags |-> [objects |-> TRUE, materials |-> TRUE, textures |-> TRUE],
     fault |-> "ok"]

NoInvocation ==
    [pc |-> "idle", gen_calls |-> 0, run_calls |-> 0, ai_response |-> <<>>,
     ai_execution_status |-> <<>>]

NoGenIn ==
    [prompt |-> <<>>, model |-> <<>>,
     resp |-> Resp("none", 0, "none", <<>>, <<>>, <<>>), io |-> "ok"]

NoFetchIn ==
    [variant |-> "none", url |-> <<>>,
     resp |-> [transport |-> "none", status |-> 0, stream |-> "ok", append |-> "ok"]]

\* the state after register(): nothing has run, the log file does not exist
InitExceptContent ==
    /\ variant \in Variants
    /\ ops = 0
    /\ pc = "idle"
    /\ code = <<>>
    /\ max_retries = 3
    /\ attempt = 0
    /\ obj_location = <<>>
    /\ result = Pending
    /\ compile_calls = 0
    /\ exec_calls = 0
    /\ sleeps = 0
    /\ faults = <<>>
    /\ host_at_call = 0
    /\ host = 0
    /\ log = <<>>
    /\ log_exists = FALSE
    /\ log_writes = 0
    /\ deprecated_log = <<>>
    /\ last_read = Pending
    /\ read_at = [exists |-> FALSE, len |-> 0]
    /\ gen_in = NoGenIn
    /\ gen_result = Pending
    /\ posts = 0
    /\ payloads = <<>>
    /\ cleaned = Pending
    /\ fetch_in = NoFetchIn
    /\ fetch_result = Pending
    /\ gets = 0
    /\ scratch = [temp |-> 0, fixed |-> FALSE]
    /\ import_status = <<>>
    /\ blend_found = NotCalled
    /\ blend_found_before = NotCalled
    /\ repo_in = NoRepoIn
    /\ downloads = 0
    /\ temp_dirs = {}
    /\ blend_files = <<>>
    /\ blend_enum = <<>>
    /\ selected = 0
    /\ github_status = <<>>
    /\ op_ret = [op |-> "none", ret |-> "none", at |-> 0]
    /\ data = [objects |-> {}, materials |-> {}, textures |-> {}]
    /\ import_in = NoImportIn
    /\ summary = Pending
    /\ loads = <<>>
    /\ other_scene = SceneProperties(<<>>, 0, <<>>)
    /\ invocation = NoInvocation

Init ==
    /\ InitExceptContent
    /\ content = <<>>
    /\ tree = {}

\* the Script Runner, one call
RunCall ==
    \E c \in RunSources, m \in (-1)..MaxRetries :
        execute_script_with_retries(c, m)

NextRun ==
    /\ \/ RunCall
       \/ for_attempt
       \/ try_validate
       \/ try_compile
       \/ try_exec
       \/ sleep_and_continue
    /\ UNCHANGED <<variant, ops, readVars, genVars, cleanVars, findVars, repoVars, opVars,
                   fetchVars>>

SpecRun == Init /\ [][NextRun]_vars

RunEnded == pc \in {"done", "raised"}

\* the Completion Client, up to MaxGens calls
NextGen ==
    /\ ops < MaxGens
    /\ ops' = ops + 1
    /\ GenStep
    /\ UNCHANGED <<variant, runVars, host, readVars, cleanVars, findVars, repoVars, opVars, fetchVars>>

SpecGen == Init /\ [][NextGen]_vars

\* the cleaning of every short completion text
InitClean ==
    /\ InitExceptContent
    /\ content \in PieceTexts(MaxPieces)
    /\ tree = {}

NextClean ==
    /\ clean_completion
    /\ UNCHANGED <<variant, ops, runVars, host, logVars, readVars, genVars,
                   fetchVars, findVars, repoVars, opVars>>

SpecClean == InitClean /\ [][NextClean]_vars

\* the History Store, up to MaxAppends appends and any number of reads
LogAppendStep ==
    /\ ops < MaxAppends
    /\ ops' = ops + 1
    /\ \E p \in Prompts, r \in LogResponses : log_append(p, r)
    /\ UNCHANGED readVars

LogReadStep ==
    /\ log_read
    /\ UNCHANGED ops

NextLog ==
    /\ \/ LogAppendStep
       \/ LogReadStep
    /\ UNCHANGED <<variant, runVars, host, genVars, cleanVars, findVars, repoVars, opVars, fetchVars>>

SpecLog == Init /\ [][NextLog]_vars

\* import_online_asset, one call
NextFetch ==
    /\ \E av \in AssetVariants, u \in UrlTexts(MaxUrlPieces), r \in FetchResponses :
           ImportOnlineAssetOperator_execute(av, u, r)
    /\ UNCHANGED <<variant, ops, runVars, logVars, readVars, genVars, cleanVars, findVars, repoVars, opVars>>

SpecFetch == Init /\ [][NextFetch]_vars

\* find_blend_files called again and again on one unchanged tree
InitFind ==
    /\ InitExceptContent
    /\ content = <<>>
    /\ tree \in Trees(MaxFiles)

NextFind ==
    /\ find_call
    /\ UNCHANGED <<variant, ops, runVars, host, logVars, readVars, genVars,
                   cleanVars, fetchVars, repoVars, opVars>>

SpecFind == InitFind /\ [][NextFind]_vars

\* the repository operators and the user's selection, up to MaxRepoOps steps
FetchStep ==
    \E u \in RepoUrls, out \in DownloadOutcomes, t \in RepoTrees :
        \E ord \in Listings(t) :
            FetchGitHubBlendsOperator_execute(u, PowerRepoText.MainBranch, out, t, ord)

SelectStep == \E i \in SelectableIndexes : set_selected(i)

ImportStep ==
    \E c \in ImportContainers, flags \in ImportFlags, fault \in {"ok", "raise"} :
        ImportSelectedBlendOperator_execute(c, flags, fault)

NextRepo ==
    /\ ops < MaxRepoOps
    /\ ops' = ops + 1
    /\ \/ FetchStep
       \/ SelectStep
       \/ ImportStep
    /\ UNCHANGED <<variant, runVars, host, logVars, readVars, genVars,
                   cleanVars, fetchVars, opVars>>

InitRepo ==
    /\ Init
    /\ variant = "power"

SpecRepo == InitRepo /\ [][NextRepo]_vars

\* an import with the three options left at their default
SceneImportStep ==
    ImportSelectedBlendOperator_execute(
        Container(1, 1, 0, 0),
        [objects |-> TRUE, materials |-> TRUE, textures |-> TRUE], "ok")

\* the repository operators in a file with two scenes, up to MaxSceneOps
\* steps
NextScenes ==
    /\ ops < MaxSceneOps
    /\ ops' = ops + 1
    /\ \/ FetchStep
       \/ SceneImportStep
       \/ switch_scene
    /\ UNCHANGED <<variant, runVars, host, logVars, readVars, genVars,
                   cleanVars, fetchVars, opVars>>

SpecScenes == InitRepo /\ [][NextScenes]_vars

(***************************************************************************)
(* GenerateAndRunCodeOperator.execute: src/openrouter_power.py:281-298     *)
(* ("power") and src/BlendAI_openrouter.py:855-870 ("gemini").  The        *)
(* "plugin" iteration defines no operator.                                 *)
(***************************************************************************)

\* if not script_code.startswith("# Error") / if "Error" not in script_code
should_execute(v, script_code) ==
    IF v = "gemini" THEN ~contains(script_code, GeminiText.ErrorWord)
    ELSE ~startswith(script_code, PowerOperatorText.ErrorMarker)

\* script_code = get_ai_generated_code(prompt, model)
operator_generate(p, r, io) ==
    /\ variant # "plugin"
    /\ invocation.pc = "idle"
    /\ pc = "idle"
    /\ get_generated_code(p, PowerGenText.DefaultModel, r, io)
    /\ invocation' = [invocation EXCEPT !.pc = "generated", !.gen_calls = @ + 1]
    /\ UNCHANGED <<runVars, host>>

\* the if statement: the runner is called, or the error is shown
operator_decide ==
    /\ invocation.pc = "generated"
    /\ IF should_execute(variant, gen_result.text)
       THEN /\ execute_script_with_retries(gen_result.text, 3)
            /\ invocation' = [invocation EXCEPT !.pc = "running",
                                                !.run_calls = @ + 1,
                                                !.ai_response = gen_result.text]
       ELSE /\ invocation' =
                   [invocation EXCEPT
                       !.pc = "finished",
                       !.ai_response =
                           IF variant = "gemini" THEN @ ELSE gen_result.text,
                       !.ai_execution_status =
                           IF variant = "gemini" THEN gen_result.text
                           ELSE PowerOperatorText.FailedToGenerateMsg]
            /\ UNCHANGED <<runVars, host, logVars>>
    /\ UNCHANGED genVars

\* context.scene.ai_execution_status = execution_result; return {'FINISHED'}
operator_finish ==
    /\ invocation.pc = "running"
    /\ pc = "done"
    /\ invocation' = [invocation EXCEPT !.pc = "finished",
                                        !.ai_execution_status = result.text]
    /\ pc' = "idle"
    /\ UNCHANGED <<code, max_retries, attempt, obj_location, result,
                   compile_calls, exec_calls, sleeps, faults, host_at_call,
                   host, logVars, genVars>>

\* one invocation of the operator
NextOperator ==
    /\ \/ \E p \in Prompts, r \in Responses, io \in IoFaults :
              operator_generate(p, r, io)
       \/ operator_decide
       \/ operator_finish
       \/ /\ invocation.pc = "running"
          /\ \/ for_attempt
             \/ try_validate
             \/ try_compile
             \/ try_exec
             \/ sleep_and_continue
          /\ UNCHANGED <<genVars, opVars>>
    /\ UNCHANGED <<variant, ops, readVars, cleanVars, fetchVars, findVars,
                   repoVars>>

SpecOperator == Init /\ [][NextOperator]_vars

\* generate, run and append in any order, up to MaxOps operations
HistorySources == { <<"x">>, <<"(">> }

HistoryResponses ==
    { Resp("raise", 0, "none", <<>>, PowerGenText.ConnectionErrorMsg, <<>>),
      Resp("ok", 500, "nonjson", <<>>, <<>>, PluginText.RawHtmlBody),
      Resp("ok", StatusOK, "choices", <<"x">>, <<>>, PluginText.RawJsonBody) }

\* GenerateAndRunCodeOperator.execute stores the result and returns
operator_return ==
    /\ RunEnded
    /\ pc' = "idle"
    /\ UNCHANGED <<code, max_retries, attempt, obj_location, result,
                   compile_calls, exec_calls, sleeps, faults, host_at_call,
                   host, logVars>>

NextHistory ==
    \/ /\ ops < MaxOps
       /\ ops' = ops + 1
       /\ \E c \in HistorySources, m \in 1..2 : execute_script_with_retries(c, m)
       /\ UNCHANGED <<variant, readVars, genVars, cleanVars, findVars, repoVars, opVars, fetchVars>>
    \/ /\ \/ for_attempt
          \/ try_validate
          \/ try_compile
          \/ try_exec
          \/ sleep_and_continue
          \/ operator_return
       /\ UNCHANGED <<variant, ops, readVars, genVars, cleanVars, findVars, repoVars, opVars,
                      fetchVars>>
    \/ /\ pc = "idle"
       /\ ops < MaxOps
       /\ ops' = ops + 1
       /\ \E p \in Prompts, r \in HistoryResponses, io \in IoFaults :
              get_generated_code(p, PowerGenText.DefaultModel, r, io)
       /\ UNCHANGED <<variant, runVars, host, readVars, cleanVars, findVars, repoVars, opVars, fetchVars>>
    \/ /\ pc = "idle"
       /\ ops < MaxOps
       /\ ops' = ops + 1
       /\ \E p \in Prompts : log_append(p, <<"r">>)
       /\ UNCHANGED <<variant, runVars, host, readVars, genVars,
                      cleanVars, findVars, repoVars, opVars, fetchVars>>

SpecHistory == Init /\ [][NextHistory]_vars

(***************************************************************************)
(* Claims about the Script Runner, checked under SpecRun.                  *)
(***************************************************************************)
\* the exceptions of this call were all raised by exec, one per call of
\* exec, and are all the same
SameFaultEveryAttempt ==
    /\ exec_calls >= 1
    /\ Len(faults) = exec_calls
    /\ \A i \in 1..Len(faults) : faults[i] = faults[1]

\* C1: a source that parses and raises the same runtime fault on every
\* attempt is executed exactly max_retries times (max_retries >= 1) and the
\* call returns the attempts-exhausted text with the last fault's message
\* and max_retries.  Stated for faults of classes derived from Exception.
C1_RuntimeFaultExhaustsAttempts ==
    ( /\ RunEnded
      /\ max_retries >= 1
      /\ Parses(code)
      /\ SameFaultEveryAttempt
      /\ faults[1].cls # "BaseException" )
    => /\ exec_calls = max_retries
       /\ result = RetStr(ExhaustedMsg(variant, max_retries,
                                       faults[Len(faults)].msg))

\* C2: a source with a parse error ends the call on its first attempt with
\* the syntax-fault text: compile is called once, exec never, no pause, in
\* every variant.  Stated for max_retries >= 1 and sources that pass the
\* no-valid-code test.
C2_SyntaxFaultNotRetried ==
    ( /\ pc # "idle"
      /\ max_retries >= 1
      /\ ~NoValidCode(code)
      /\ ~Parses(code) )
    => /\ compile_calls <= 1
       /\ exec_calls = 0
       /\ sleeps = 0
       /\ RunEnded => /\ result = RetStr(PowerRunText.SyntaxErrorPrefix \o PowerRunText.UnclosedParenMsg)
                      /\ compile_calls = 1
                      /\ attempt = 1

\* the first character of c that is not whitespace, if any, is "#"
TrimmedEmptyOrComment(c) ==
    LET rest == {i \in 1..Len(c) : c[i] \notin Whitespace}
    IN  \/ rest = {}
        \/ c[CHOOSE i \in rest : \A j \in rest : i <= j] = "#"

C4_AlwaysReturnsString ==
    RunEnded => result.kind = "str"

(***************************************************************************)
(* Claims about the Completion Client.                                     *)
(***************************************************************************)
\* the call met no failure: the POST answered 200 with a well-formed body
\* and the log files could be read and written
GenSucceeds ==
    /\ gen_in.resp.transport = "ok"
    /\ gen_in.resp.status = StatusOK
    /\ gen_in.resp.kind = "choices"
    /\ gen_in.io = "ok"

\* C5: generate never raises: on every failure path (another status, a
\* malformed body, a transport or logging failure) it returns a string that
\* begins with "# Error".  Checked under SpecGen.
C5_GenerateNeverRaises ==
    gen_result # Pending
    => /\ gen_result.kind = "str"
       /\ ~GenSucceeds => startswith(gen_result.text, PowerOperatorText.ErrorMarker)

\* a completion text with no whitespace around it and no triple quote in
\* it, so that fence removal is the only cleaning step in play
WellFormedCompletion ==
    /\ strip(content) = content
    /\ ~contains(content, PowerGenText.TripleDoubleQuote)
    /\ ~contains(content, PowerGenText.TripleSingleQuote)

\* the length of the opening fence at the start of t (three backticks, a
\* tag of letters, a newline); 0 when t does not start with one
OpeningFence(t) ==
    IF /\ startswith(t, PowerGenText.TripleBacktick)
       /\ 4 + LetterRun(t, 4) <= Len(t)
       /\ t[4 + LetterRun(t, 4)] = "\n"
    THEN 4 + LetterRun(t, 4)
    ELSE 0

BothFencesPresent(t) ==
    /\ OpeningFence(t) > 0
    /\ endswith(t, PowerGenText.TripleBacktick)
    /\ Len(t) >= OpeningFence(t) + 3

\* C6: for a well-formed completion text, generate removes exactly the one
\* leading and the one trailing fence marker when both are present, leaving
\* fence markers on other lines in place, and returns a text with no fence
\* unchanged.  Checked under SpecClean.
C6_StripsOneFencePair ==
    (cleaned # Pending /\ WellFormedCompletion)
    => /\ ~contains(content, PowerGenText.TripleBacktick) => cleaned.text = content
       /\ BothFencesPresent(content)
              => cleaned.text = SubSeq(content, OpeningFence(content) + 1,
                                       Len(content) - 3)

\* content is: opening fence, a tag without newline ending before position
\* i, a newline at i, a body, a newline at j, the closing fence; the body is
\* not empty, holds no backtick and neither starts nor ends with a newline
FencedBody(i, j) ==
    /\ SubSeq(content, 1, 3) = PowerGenText.TripleBacktick
    /\ \A k \in 4..(i - 1) : content[k] # "\n"
    /\ content[i] = "\n"
    /\ content[j] = "\n"
    /\ SubSeq(content, j + 1, Len(content)) = PowerGenText.TripleBacktick
    /\ j > i + 1
    /\ \A k \in (i + 1)..(j - 1) : content[k] # Backtick
    /\ content[i + 1] # "\n"
    /\ content[j - 1] # "\n"

\* C7: for a completion text of the form fence, tag, newline, body, newline,
\* fence, whatever the tag, generate returns exactly the body.  Checked
\* under SpecClean.
C7_FencedBodyReturned ==
    cleaned # Pending
    => \A i \in 4..Len(content) : \A j \in (i + 1)..Len(content) :
           FencedBody(i, j) => cleaned.text = SubSeq(content, i + 1, j - 1)

(***************************************************************************)
(* Claims about the History Store.                                         *)
(***************************************************************************)
\* what the last read returned is the log as it was then (its first
\* read_at.len characters, the log being append-only), whole or its last
\* LogWindow characters
ReadIsRecent ==
    last_read # Pending
    => LET n == read_at.len
           t == last_read.text
       IN  /\ last_read.kind = "str"
           /\ n <= Len(log)
           /\ ~read_at.exists => t = <<>>
           /\ (read_at.exists /\ n <= LogWindow) => t = SubSeq(log, 1, n)
           /\ (read_at.exists /\ n > LogWindow)
                  => /\ Len(t) = LogWindow
                     /\ \A i \in 1..LogWindow : t[i] = log[n - LogWindow + i]

\* C8: read_recent returns empty text when the log does not exist, the whole
\* content when it holds at most 2000 characters and exactly the last 2000
\* characters otherwise; it never modifies the log (the log changes only in
\* an append).  Checked under SpecLog.
C8_ReadRecent ==
    /\ []ReadIsRecent
    /\ [][(log' # log \/ log_exists' # log_exists) => ops' = ops + 1]_vars

C8_Witness ==
    /\ last_read # Pending
    /\ read_at.len > LogWindow
    /\ Len(last_read.text) = LogWindow
    /\ last_read.text # SubSeq(log, 1, LogWindow)

\* C9: the interaction history is append-only: over generate, run and append
\* operations the log before a step is a prefix of the log after it, every
\* write makes it strictly longer, and nothing else changes it.  Checked
\* under SpecHistory.
C9_AppendOnly ==
    [][ /\ Len(log') >= Len(log)
        /\ SubSeq(log', 1, Len(log)) = log
        /\ log_writes' # log_writes => Len(log') > Len(log)
        /\ log_writes' = log_writes => log' = log ]_vars

C9_Witness ==
    /\ log_writes = 2
    /\ gen_result.kind = "str"
    /\ result.kind = "str"
    /\ Len(log) > 2 * Len(LogSeparator)

(***************************************************************************)
(* Claims about the Archive Fetcher.                                       *)
(***************************************************************************)
\* C10: import_online_asset given a URL that does not end in ".blend"
\* returns the error text without any network call, without writing a
\* scratch file and without touching the host session.  Checked under
\* SpecFetch.
C10_RejectsOtherExtensions ==
    ( /\ fetch_result # Pending
      /\ ~endswith(fetch_in.url, <<".", "b", "l", "e", "n", "d">>) )
    => /\ fetch_result = RetStr(AssetText.OnlyBlendMsg)
       /\ import_status = AssetText.OnlyBlendMsg
       /\ gets = 0
       /\ scratch = [temp |-> 0, fixed |-> FALSE]
       /\ host = 0

C10_Witness ==
    /\ fetch_result = RetStr(AssetText.OnlyBlendMsg)
    /\ fetch_in.url = AssetText.DotBlend \o <<"?">>
    /\ gets = 0

\* the GET was issued for an accepted URL and answered
AcceptedUrl == endswith(fetch_in.url, <<".", "b", "l", "e", "n", "d">>)

\* C11: import_online_asset with an accepted URL returns the local scratch
\* path of the downloaded file when the response status is 200, and an error
\* text for every other status or transport failure; on a status other than
\* 200 no scratch file is written and nothing is merged into the host
\* session.  Checked under SpecFetch.
C11_FetchReturnsPath ==
    (fetch_result # Pending /\ AcceptedUrl)
    => /\ fetch_result.kind = "str"
       /\ ( /\ fetch_in.resp.transport = "ok"
            /\ fetch_in.resp.status = StatusOK
            /\ fetch_in.resp.stream = "ok"
            /\ fetch_in.resp.append = "ok" )
              => fetch_result.text = ScratchPath(fetch_in.variant)
       /\ (fetch_in.resp.transport = "raise" \/ fetch_in.resp.status # StatusOK)
              => /\ startswith(fetch_result.text, PowerOperatorText.ErrorMarker)
                 /\ scratch = [temp |-> 0, fixed |-> FALSE]
                 /\ host = 0

(***************************************************************************)
(* Claims about find_blend_files, checked under SpecFind.                  *)
(***************************************************************************)
\* the path of file f, written out from the top directory
RECURSIVE DirText(_)
DirText(d) == IF d = <<>> THEN <<>> ELSE <<"/">> \o Head(d) \o DirText(Tail(d))

PathOf(f) == PowerRepoText.ExtractDir \o DirText(f.dir) \o <<"/">> \o f.name

Containers == { f \in tree : endswith(f.name, <<".", "b", "l", "e", "n", "d">>) }

Depth(f) == Len(f.dir)

\* C12: find_blend_files returns exactly the files under the directory whose
\* name ends with .blend, at every nesting depth, each exactly once, and no
\* directory and no file with another extension.
C12_FindsExactlyContainers ==
    blend_found # NotCalled
    => /\ { blend_found[i] : i \in 1..Len(blend_found) }
              = { PathOf(f) : f \in Containers }
       /\ \A i, j \in 1..Len(blend_found) :
              i # j => blend_found[i] # blend_found[j]
       /\ \A i \in 1..Len(blend_found) :
              blend_found[i] # PowerRepoText.ExtractDir \o <<"/">> \o DirXBlend

C12_Witness ==
    /\ blend_found # NotCalled
    /\ Len(blend_found) = 3
    /\ { Depth(f) : f \in Containers } = {0, 1, 2}
    /\ \E f \in tree : f.dir = <<DirXBlend>>

\* C13: two calls of find_blend_files on the same unchanged tree return the
\* same paths in the same order, whatever order the directory listings
\* yield the entries in.
C13_FindDeterministic ==
    (blend_found # NotCalled /\ blend_found_before # NotCalled)
    => blend_found = blend_found_before

(***************************************************************************)
(* Claims about the repository operators, checked under SpecRepo.          *)
(***************************************************************************)
\* this step is an invocation of the import operator
ImportInvoked == op_ret'.op = "import" /\ op_ret'.at = ops' /\ ops' # ops

\* the selected index is a valid ordinal of a non-empty container list
ValidSelection ==
    /\ blend_files # <<>>
    /\ selected >= 0
    /\ selected < Len(blend_files)

ImportErrorStatus ==
    /\ op_ret'.ret = "CANCELLED"
    /\ \/ github_status' \in {PowerRepoText.NoFilesAvailableMsg, PowerRepoText.InvalidSelectionMsg}
       \/ startswith(github_status', PowerRepoText.ImportErrorPrefix)

\* C14: an import is performed only when the container list is non-empty
\* and the selected index is a valid ordinal of it; an import invoked with
\* an index at or beyond the length, with a negative index, or before any
\* container was fetched ends in an error status with the host session
\* unchanged.
C14_ImportOnlyValidOrdinal ==
    [][ (ImportInvoked /\ ~ValidSelection)
            => /\ ImportErrorStatus
               /\ data' = data
               /\ import_in' = import_in
               /\ summary' = summary ]_vars

\* C15: append_from_library with all flags true on a container holding o
\* objects, m materials and t textures returns the summary (o, m, t); a
\* category with no entries is reported as 0 and is not an error.
C15_SummaryCountsContainer ==
    ( /\ summary # Pending
      /\ import_in.fault = "ok"
      /\ import_in.flags = [objects |-> TRUE, materials |-> TRUE, textures |-> TRUE] )
    => summary = Summary(import_in.container.objects,
                         import_in.container.materials,
                         import_in.container.textures)

\* the last step was a fetch whose download or extraction failed
FetchFailed ==
    /\ op_ret.op = "fetch"
    /\ repo_in.url # <<>>
    /\ repo_in.outcome \in {"download_fails", "extract_fails"}

\* C19: download_github_repo attempts the download at most once per call and
\* never retries; when the download or the extraction fails it raises a
\* tagged failure, which the fetch operator converts into an "Error: ..."
\* status text, so that no fault leaves the operator.
C19_DownloadOnceAndTagged ==
    /\ [](op_ret.ret \in {"none", "FINISHED", "CANCELLED"})
    /\ [](FetchFailed
            => /\ repo_in.ret.kind = "raise"
               /\ startswith(repo_in.ret.text, PowerRepoText.FailedDownloadPrefix)
               /\ github_status = <<"E", "r", "r", "o", "r", ":", " ">> \o repo_in.ret.text
               /\ op_ret.ret = "CANCELLED")
    /\ [][ /\ downloads' \in {downloads, downloads + 1}
           /\ downloads' = downloads + 1
                  <=> (op_ret'.op = "fetch" /\ op_ret'.at = ops' /\ ops' # ops
                       /\ repo_in'.url # <<>>) ]_vars

C19_Witness ==
    /\ FetchFailed
    /\ op_ret.at = ops
    /\ repo_in.outcome = "extract_fails"
    /\ downloads = 2
    /\ startswith(github_status, PowerRepoText.StatusErrorPrefix \o PowerRepoText.FailedDownloadPrefix)

(***************************************************************************)
(* Claims about the Generate-and-Run operator and the denylist check.      *)
(***************************************************************************)
\* C18: in one Generate-and-Run invocation the completion client is called
\* exactly once, and the runner exactly once when generation succeeded and
\* not at all when it returned an error result: a successfully generated
\* source is never withheld from the runner, and the runner's outcome is
\* never retried by the caller.  Checked under SpecOperator.
C18_GenerateOnceRunOnce ==
    invocation.pc = "finished"
    => /\ invocation.gen_calls = 1
       /\ posts <= 1
       /\ GenSucceeds => invocation.run_calls = 1
       /\ ~GenSucceeds => invocation.run_calls = 0

\* the text holds at least one entry of the variant's denylist
Denylisted(text) ==
    \E i \in 1..Len(DEPRECATED_FUNCTIONS(variant)) :
        \E k \in 1..Len(text) :
            /\ k + Len(DEPRECATED_FUNCTIONS(variant)[i]) - 1 <= Len(text)
            /\ SubSeq(text, k, k + Len(DEPRECATED_FUNCTIONS(variant)[i]) - 1)
                   = DEPRECATED_FUNCTIONS(variant)[i]

\* this step is a call of generate that met no failure, in an iteration
\* that has check_deprecated_usage
CheckedGeneration ==
    /\ variant \in {"plugin", "gemini"}
    /\ ops' # ops
    /\ GenSucceeds'

RuntimeFault == pc = "exec" /\ Len(faults') = Len(faults) + 1

\* C20: every runtime fault that occurs while attempts remain is followed by
\* exactly one pause and then a re-attempt that compiles and executes the
\* same, unmodified source; no pause follows the last failed attempt, so a
\* call that exhausts max_retries attempts pauses max_retries - 1 times; the
\* completion client is not called during the retries.
C20_FaultPauseRetry ==
    /\ [][ /\ (RuntimeFault /\ attempt < max_retries) => pc' = "sleep"
           /\ (RuntimeFault /\ attempt >= max_retries)
                  => (pc' = "done" /\ sleeps' = sleeps)
           /\ pc = "sleep"
                  => (pc' = "for" /\ sleeps' = sleeps + 1
                      /\ compile_calls' = compile_calls /\ exec_calls' = exec_calls)
           /\ pc # "idle" => (code' = code /\ posts' = posts) ]_vars
    /\ []( (RunEnded /\ max_retries >= 1 /\ exec_calls = max_retries
            /\ Len(faults) = max_retries)
              => /\ sleeps = max_retries - 1
                 /\ compile_calls = max_retries )

(***************************************************************************)
(* The system prompt of the Completion Client, checked under SpecGen.      *)
(***************************************************************************)
Composed == Len(payloads') = Len(payloads) + 1

SameInputs(p, q) == p.prompt = q.prompt /\ p.history = q.history

\* C17: the system prompt is a function of the user's prompt, the denylist
\* and the history text: two compositions from the same inputs give the
\* same text; the text contains the denylist entries joined by ", ", the
\* history text as read from the log, and it ends with the user's prompt
\* followed by " in Blender 4.3"; composing writes to no log and leaves the
\* host as it was.
C17_SystemPromptComposition ==
    /\ [](\A i \in DOMAIN payloads :
            LET p == payloads[i]
            IN  /\ contains(p.system_prompt,
                            join(PluginText.CommaSpace, DEPRECATED_FUNCTIONS(variant)))
                /\ contains(p.system_prompt, p.history)
                /\ endswith(p.system_prompt, p.prompt \o PowerGenText.BlenderSuffix)
                /\ \A j \in DOMAIN payloads :
                       SameInputs(p, payloads[j])
                           => payloads[j].system_prompt = p.system_prompt)
    /\ [][ Composed
             => /\ payloads'[Len(payloads')].history = read_log_history
                /\ payloads'[Len(payloads')].prompt = gen_in'.prompt
                /\ host' = host
                /\ startswith(log', log)
                /\ (variant # "plugin" /\ ~GenSucceeds')
                       => (log' = log /\ log_exists' = log_exists) ]_vars

C17_Witness ==
    /\ Len(payloads) = 2
    /\ SameInputs(payloads[1], payloads[2])
    /\ posts = 2

\* C21: every fault raised while executing a source that compiled is a
\* runtime fault, whatever its class: it is retried while attempts remain
\* and gives the attempts-exhausted text after the last one; the syntax error
\* text is returned only when compiling the source itself failed.
C21_ExecFaultsAreRuntimeFaults ==
    /\ [][ RuntimeFault
             => IF attempt < max_retries
                THEN pc' = "sleep"
                ELSE /\ pc' = "done"
                     /\ result' = RetStr(ExhaustedMsg(variant, max_retries,
                                             faults'[Len(faults')].msg)) ]_vars
    /\ []( (RunEnded /\ result.kind = "str"
            /\ startswith(result.text, PowerRunText.SyntaxErrorPrefix))
              => (exec_calls = 0 /\ ~Parses(code)) )

\* the last execution of the call did not fault
LastExecutionClean == exec_calls >= 1 /\ Len(faults) < exec_calls

\* C22: a call never executes the source more than max_retries times; a
\* source that faults on attempts 1..k-1 and not on attempt k <= max_retries
\* gives the success text after k executions and k-1 pauses, so a call that
\* stops below the ceiling stopped on an execution that did not fault; nothing
\* is compiled, executed or paused after the call has ended.
C22_SucceedsOnFirstCleanAttempt ==
    /\ [](exec_calls = 0 \/ exec_calls <= max_retries)
    /\ []( (RunEnded /\ LastExecutionClean)
              => /\ result = RetStr(SucceededMsg(variant, obj_location))
                 /\ exec_calls = attempt
                 /\ compile_calls = exec_calls
                 /\ sleeps = exec_calls - 1
                 /\ Len(faults) = exec_calls - 1 )
    /\ []( (RunEnded /\ exec_calls >= 1 /\ exec_calls < max_retries)
              => LastExecutionClean )
    /\ [][ RunEnded => UNCHANGED <<compile_calls, exec_calls, sleeps>> ]_vars

\* the call ended with the attempts-exhausted text
Exhausted ==
    /\ pc = "done"
    /\ max_retries >= 1
    /\ Len(faults) = max_retries
    /\ result = RetStr(ExhaustedMsg(variant, max_retries,
                                    faults[Len(faults)].msg))

\* C23: the runner neither snapshots nor rolls back the session: from the
\* fault of attempt k to the execution of attempt k+1 the session is left as
\* the faulted attempt left it, no step of a call takes a mutation back, and
\* at the attempts-exhausted outcome the session holds what every failed
\* attempt did.
C23_NoRollback ==
    /\ [][ (pc \in {"for", "try", "compile", "sleep"}) => (host' = host) ]_vars
    /\ [][ pc # "idle" => (host' >= host) ]_vars
    /\ []( Exhausted => host >= host_at_call )

C23_Witness ==
    /\ Exhausted
    /\ max_retries >= 2
    /\ exec_calls = max_retries
    /\ host = host_at_call + exec_calls

\* C24: a call of the Completion Client appends exactly one record to the
\* log when the completion succeeded (status 200, well-formed body), made of
\* the prompt and the cleaned code it returns, and appends nothing on a
\* failure path (another status, a malformed body, a transport exception).
\* Checked under SpecGen, for calls that can read and write the log.
C24_LogsSuccessesOnly ==
    [][ (ops' # ops /\ gen_in'.io = "ok")
          => IF GenSucceeds'
             THEN /\ log_writes' = log_writes + 1
                  /\ log' = log \o LogRecord(variant, gen_in'.prompt,
                                             gen_result'.text, gen_in'.model)
             ELSE /\ log_writes' = log_writes
                  /\ log' = log ]_vars

(***************************************************************************)
(* Further claims about the repository operators, checked under SpecRepo.  *)
(***************************************************************************)
Categories == {"objects", "materials", "textures"}

Requested(l) == { l[i] : i \in DOMAIN l }

\* C25: append_from_library asks the library for a category only when the
\* category's flag is true; with the three flags false it asks for nothing,
\* bpy.data is left as it was and the summary is (0, 0, 0).  Stated for the
\* imports whose append_from_library returned.
C25_LoadsOnlyFlagged ==
    [][ (ImportInvoked /\ op_ret'.ret = "FINISHED")
          => /\ \A k \in Categories :
                   ~import_in'.flags[k] => k \notin Requested(loads')
             /\ (\A k \in Categories : ~import_in'.flags[k])
                   => /\ loads' = <<>>
                      /\ data' = data
                      /\ summary' = Summary(0, 0, 0) ]_vars

C25_Witness ==
    /\ op_ret.op = "import"
    /\ \A k \in Categories : ~import_in.flags[k]
    /\ import_in.container = Container(2, 0, 1, 0)
    /\ summary = Summary(0, 0, 0)
    /\ github_status # PowerRepoText.NoFilesAvailableMsg

\* in this step a fetch reached urlretrieve
Downloaded == downloads' = downloads + 1

\* C26: each download_github_repo makes a temporary directory of its own,
\* one that did not exist and that no step removes, whether the download and
\* the extraction succeed or fail: the set of temporary directories only
\* grows, by one for each call that reaches the download; the directory a
\* successful call returns lies in the one it made.
C26_FreshScratchKept ==
    [][ /\ temp_dirs \subseteq temp_dirs'
        /\ Downloaded
             => \E n \in temp_dirs' \ temp_dirs :
                   /\ temp_dirs' = temp_dirs \cup {n}
                   /\ repo_in'.ret.kind = "str"
                        => repo_in'.ret.text
                             = path_join(TempDir(n), PowerRepoText.ExtractedName)
        /\ ~Downloaded => temp_dirs' = temp_dirs ]_vars

C26_Witness ==
    /\ Cardinality(temp_dirs) = 3
    /\ downloads = 3
    /\ repo_in.outcome = "extract_fails"
    /\ blend_files # <<>>

(***************************************************************************)
(* Claims about the two lists of containers, checked under SpecScenes.     *)
(***************************************************************************)
FetchInvoked == op_ret'.op = "fetch" /\ op_ret'.at = ops' /\ ops' # ops

Range(q) == { q[i] : i \in DOMAIN q }

\* C27: whatever fetches and imports were made, ai_blend_files and
\* ai_blend_enum hold the same paths in the same order and the id of every
\* entry is its position; right after a fetch that finished both hold
\* exactly the containers that fetch found and the selected index is 0.
C27_ListsAgree ==
    /\ []( /\ Len(blend_enum) = Len(blend_files)
           /\ \A i \in DOMAIN blend_enum :
                 /\ blend_enum[i].path = blend_files[i]
                 /\ blend_enum[i].id = i - 1 )
    /\ [][ (FetchInvoked /\ op_ret'.ret = "FINISHED")
             => /\ blend_files' = blend_found'
                /\ Len(blend_enum') = Len(blend_found')
                /\ \A i \in DOMAIN blend_enum' :
                      blend_enum'[i].path = blend_found'[i]
                /\ selected' = 0 ]_vars

\* C28: a fetch that is cancelled (no URL, a failed download or extraction,
\* no container found) leaves ai_blend_enum, ai_blend_files and the selected
\* index as they were, so an import made later still appends from a
\* container of the last fetch that finished.
C28_CancelledFetchKeepsLists ==
    /\ [][ (FetchInvoked /\ op_ret'.ret = "CANCELLED")
             => /\ blend_enum' = blend_enum
                /\ blend_files' = blend_files
                /\ selected' = selected
                /\ data' = data ]_vars
    /\ [][ (ImportInvoked /\ op_ret'.ret = "FINISHED")
             => import_in'.path \in Range(blend_files) ]_vars

=============================================================================
